---- MODULE Spec2Model ----
(***************************************************************************)
(* Document-processing lifecycle of the PDF chat backend                   *)
(* (src/backend/main.py, src/backend/app/ragflow_client.py).               *)
(*                                                                         *)
(* The handlers are coroutines on one event loop: a handler runs without   *)
(* interruption between two awaits of a gateway call, so every action      *)
(* below is the code between two such suspension points.  Every handler    *)
(* has its own database session; an object loaded by a session keeps the   *)
(* values it was loaded with (its snapshot) across the await, and commit   *)
(* writes the columns whose value the handler changed, to the row with     *)
(* the object's primary key; when that row is gone the commit raises and   *)
(* the handler writes nothing.  applied and writers are history variables: *)
(* no handler reads them.                                                  *)
(*                                                                         *)
(* The chat turn (send_message) and the citation functions of the gateway  *)
(* client (extract_citations, format_citations_for_storage) are modelled   *)
(* in the second half, with specifications of their own.  A string whose   *)
(* length matters is a sequence of characters; a float is an integer       *)
(* number of hundredths.  The validation of an uploaded file and the       *)
(* handlers that look a row up by id have specifications of their own;     *)
(* answered records, as history, the status they answer with.              *)
(*                                                                         *)
(* Further specifications start from states in which several requests are  *)
(* suspended at once: the reconciliation of a processing document by       *)
(* status checks and batches (reported is the terminal status the gateway  *)
(* has settled on), a deletion racing with the writers, interleaved chat   *)
(* turns, and quick_chat.  The readiness probe and the detailed health     *)
(* check read nothing of the tables; health records what they answered.    *)
(***************************************************************************)
EXTENDS Integers, Sequences, FiniteSets, TLC

\* ---------------------------------------------------------------- bounds
MaxDocs == 2
MaxInFlight == 1
AttemptCap == 1
MaxConvs == 1
MaxRequestLen == 2
BudgetDocs == 1
MaxSources == 2
MaxOthers == 1
MaxChats == 1
MaxTurns == 2
MaxPrior == 12
MaxUploads == 1
MaxInterleaved == 2
MaxQuick == 2

\* ------------------------------------------------------ program constants
max_attempts == 60

\* ----------------------------------------------------------------- values
NULL == <<>>
Some(x) == <<x>>

DocIds == 1..MaxDocs
\* an identifier that is well formed and names no document
GhostId == MaxDocs + 1

PageCounts == {Some(1)}
Metadatas == {Some("m1")}
EmptyMap == Some("{}")

\* a Document row as upload_document creates it
NewDocument ==
    [processing_status |-> "pending",
     ragflow_document_id |-> NULL,
     page_count |-> NULL,
     doc_metadata |-> NULL]

DocumentFields == {"processing_status", "ragflow_document_id", "page_count", "doc_metadata"}

\* dict.get(key, default): the default only when the key is absent
Get(value, default) == IF value = NULL THEN default ELSE value

\* Python truth of an optional string
Truthy(value) == value # NULL

\* ---------------------------------------------------------------- gateway
\* RAGFlowClient.upload_document: success with the JSON body, or an error.
\* mapping says whether the body is a JSON object; document_id is its key of
\* that name, NULL when it has none.
RegisterReplies ==
    {[status |-> "success", mapping |-> TRUE, document_id |-> Some("r")],
     [status |-> "success", mapping |-> TRUE, document_id |-> NULL],
     [status |-> "success", mapping |-> FALSE, document_id |-> NULL],
     [status |-> "error", mapping |-> FALSE, document_id |-> NULL]}

\* RAGFlowClient.get_document_status: success with the JSON body, or an error.
\* A key of the body that is absent is NULL here.
StatusData ==
    {[status |-> "processing", page_count |-> NULL, metadata |-> NULL],
     [status |-> "failed", page_count |-> NULL, metadata |-> NULL],
     [status |-> "completed", page_count |-> NULL, metadata |-> NULL]}
    \cup {[status |-> "completed", page_count |-> p, metadata |-> m] :
            p \in PageCounts, m \in Metadatas}

StatusReplies ==
    {[status |-> "success", data |-> sd] : sd \in StatusData}
    \cup {[status |-> "error", data |-> [status |-> "", page_count |-> NULL, metadata |-> NULL]]}

\* RAGFlowClient.delete_document: success (also for HTTP 404), error, or the
\* call raising
DeleteReplies == {"success", "error", "raise"}

\* ---------------------------------------------------------------- state
VARIABLES
    documents,      \* the documents table: id -> row, for the ids that exist
    created,        \* number of Document rows ever created (ids are fresh)
    conversations,  \* the conversations table, in creation order
    up,             \* upload_document of each document: where it is
    poll,           \* poll_document_status task of each document; the number of
                    \* gateway calls it has made (calls) is history
    gs,             \* get_document_status request in flight, per document
    del,            \* delete_document request in flight, per document
    batch,          \* poll_processing_documents request in flight
    applied,        \* history: the terminal gateway data written to each document
    writers,        \* history: the operations that wrote them
    messages,       \* the messages table, in creation order
    chat,           \* send_message requests: where each is and what it holds; its
                    \* last answer (code) and the number of messages its
                    \* conversation had when it arrived (prior) are history
    normalizer,     \* the citation functions: which of them has been applied
    ragflow_response,       \* the argument of extract_citations
    citations,              \* the list extract_citations returned
    citations_for_storage,  \* the list format_citations_for_storage returned
    answered,       \* history: the last request answered before any gateway call,
                    \* what it asked and the status it was answered with
    reported,       \* the gateway: the status data it reports for each document
                    \* from now on, NULL while its reports may still change
    health          \* history: the last readiness probe and the last detailed
                    \* health check, what they found and what they answered

lifecycle_vars == <<documents, created, conversations, up, poll, gs, del, batch, applied, writers>>
chat_vars == <<messages, chat>>
citation_vars == <<normalizer, ragflow_response, citations, citations_for_storage>>

vars == <<lifecycle_vars, chat_vars, citation_vars, answered, reported, health>>

Exists(d) == d \in DOMAIN documents

\* ------------------------------------------------------------- the session
\* Session.commit for one loaded object: UPDATE ... SET <the columns whose
\* value differs from the loaded one> WHERE id = <the object's id>
CommitRow(row, snap, obj) ==
    [f \in DocumentFields |-> IF obj[f] # snap[f] THEN obj[f] ELSE row[f]]

Dirty(snap, obj) == \E f \in DocumentFields : obj[f] # snap[f]

\* the table without row d
Without(table, d) == [x \in (DOMAIN table) \ {d} |-> table[x]]

\* no probe has been made
NoProbe == [asked |-> FALSE, database |-> FALSE, redis |-> "", gateway |-> "", filesystem |-> FALSE]
NotProbed ==
    [ready |-> [probe |-> NoProbe, code |-> 0],
     detailed |-> [probe |-> NoProbe, status |-> "",
                   checks |-> [database |-> "", redis |-> "", ragflow |-> "", filesystem |-> ""]]]

\* the gateway has settled on no document's status
NotReported == [d \in DocIds |-> NULL]

IdlePoll == [pc |-> "none", attempt |-> 0, calls |-> 0, reason |-> "", snap |-> NewDocument]
IdleCheck == [pc |-> "idle", snap |-> NewDocument, late |-> FALSE]
IdleBatch == [pc |-> "idle", cur |-> 0, todo |-> {}, snap |-> <<>>, reply |-> <<>>]

\* the requests suspended at a gateway call
InFlight ==
    Cardinality({d \in DocIds : up[d] = "registering"})
    + Cardinality({d \in DocIds : gs[d].pc = "await"})
    + Cardinality({d \in DocIds : del[d] = "await"})
    + (IF batch.pc = "await" THEN 1 ELSE 0)

Note(history, d, x) == [history EXCEPT ![d] = @ \cup {x}]

LifecycleInit ==
    /\ documents = <<>>
    /\ created = 0
    /\ conversations = <<>>
    /\ up = [d \in DocIds |-> "none"]
    /\ poll = [d \in DocIds |-> IdlePoll]
    /\ gs = [d \in DocIds |-> IdleCheck]
    /\ del = [d \in DocIds |-> "idle"]
    /\ batch = IdleBatch
    /\ applied = [d \in DocIds |-> {}]
    /\ writers = [d \in DocIds |-> {}]

\* ---------------------------------------------------------- upload_document
\* main.py 385-400: the record is created pending and committed, then the
\* handler awaits the gateway registration
upload_document_create(limit) ==
    /\ created < limit
    /\ InFlight < MaxInFlight
    /\ LET d == created + 1 IN
        /\ created' = d
        /\ documents' = [x \in (DOMAIN documents) \cup {d} |->
                            IF x = d THEN NewDocument ELSE documents[x]]
        /\ up' = [up EXCEPT ![d] = "registering"]
    /\ UNCHANGED <<conversations, poll, gs, del, batch, applied, writers>>

\* main.py 405-409 / 426: what the handler assigns to its Document object
UploadAssign(obj, reply) ==
    IF reply.status = "success"
    THEN [obj EXCEPT !.ragflow_document_id = reply.document_id,
                     !.processing_status = "processing"]
    ELSE [obj EXCEPT !.processing_status = "failed"]

\* main.py 407: ragflow_result["data"].get raises when the body of the
\* success is not a JSON object
RegistrationRaises(reply) == reply.status = "success" /\ ~reply.mapping

SchedulesPoll_Always(reply) == TRUE

\* main.py 415: the poll task is added after a successful registration only
SchedulesPoll(reply) == reply.status = "success"

upload_document_registered_SchedulesAll(d, reply) ==
    /\ up[d] = "registering"
    /\ LET obj == UploadAssign(NewDocument, reply) IN
        IF Exists(d) /\ ~RegistrationRaises(reply)
        THEN /\ documents' = [documents EXCEPT ![d] = CommitRow(documents[d], NewDocument, obj)]
             /\ up' = [up EXCEPT ![d] = reply.status]
             /\ poll' = [e \in DocIds |->
                            IF SchedulesPoll(reply) /\ Exists(e) /\ poll[e].pc \in {"none", "done"}
                            THEN [IdlePoll EXCEPT !.pc = "loop"] ELSE poll[e]]
        ELSE /\ up' = [up EXCEPT ![d] = "exception"]
             /\ UNCHANGED <<documents, poll>>
    /\ UNCHANGED <<created, conversations, gs, del, batch, applied, writers>>

\* main.py 400-442: the registration returned
upload_document_registered(d, reply) ==
    /\ up[d] = "registering"
    /\ LET obj == UploadAssign(NewDocument, reply) IN
        IF Exists(d) /\ ~RegistrationRaises(reply)
        THEN /\ documents' = [documents EXCEPT ![d] = CommitRow(documents[d], NewDocument, obj)]
             /\ up' = [up EXCEPT ![d] = reply.status]
             /\ poll' = [poll EXCEPT ![d] =
                            IF SchedulesPoll(reply)
                            THEN [IdlePoll EXCEPT !.pc = "loop"] ELSE @]
        ELSE \* the row is gone and commit raises StaleDataError, or the body is
             \* not an object: caught at 440, answered 500, nothing is written
             /\ up' = [up EXCEPT ![d] = "exception"]
             /\ UNCHANGED <<documents, poll>>
    /\ UNCHANGED <<created, conversations, gs, del, batch, applied, writers>>

\* ---------------------------------------------------- poll_document_status
PollAssign_DropsReference(obj, reply) ==
    IF reply.status = "success" /\ reply.data.status = "completed"
    THEN [obj EXCEPT !.processing_status = "completed",
                     !.page_count = reply.data.page_count,
                     !.doc_metadata = Get(reply.data.metadata, EmptyMap)]
    ELSE IF reply.status = "success" /\ reply.data.status = "failed"
    THEN [obj EXCEPT !.processing_status = "failed", !.ragflow_document_id = NULL]
    ELSE obj

PollAssign_FailsOnError(obj, reply) ==
    IF reply.status = "success" /\ reply.data.status = "completed"
    THEN [obj EXCEPT !.processing_status = "completed",
                     !.page_count = reply.data.page_count,
                     !.doc_metadata = Get(reply.data.metadata, EmptyMap)]
    ELSE IF reply.status # "success" \/ reply.data.status = "failed"
    THEN [obj EXCEPT !.processing_status = "failed"]
    ELSE obj

\* main.py 536-549: what one poll iteration assigns to its Document object
PollAssign(obj, reply) ==
    IF reply.status = "success" /\ reply.data.status = "completed"
    THEN [obj EXCEPT !.processing_status = "completed",
                     !.page_count = reply.data.page_count,
                     !.doc_metadata = Get(reply.data.metadata, EmptyMap)]
    ELSE IF reply.status = "success" /\ reply.data.status = "failed"
    THEN [obj EXCEPT !.processing_status = "failed"]
    ELSE obj

NextAttempt_OffByOne(p) ==
    IF p.attempt + 1 <= max_attempts
    THEN [p EXCEPT !.pc = "loop", !.attempt = @ + 1]
    ELSE [p EXCEPT !.pc = "done", !.attempt = @ + 1, !.reason = "exhausted"]

NextAttempt_NoBudget(p) == [p EXCEPT !.pc = "loop", !.attempt = @ + 1]

\* main.py 551-553 and the loop condition of 521: one attempt is consumed
NextAttempt(p) ==
    IF p.attempt + 1 < max_attempts
    THEN [p EXCEPT !.pc = "loop", !.attempt = @ + 1]
    ELSE [p EXCEPT !.pc = "done", !.attempt = @ + 1, !.reason = "exhausted"]

Finished(p, why) == [p EXCEPT !.pc = "done", !.reason = why]

poll_document_status_iterate_NoStatusCheck(d, cap) ==
    /\ poll[d].pc = "loop"
    /\ IF ~Exists(d)
       THEN poll' = [poll EXCEPT ![d] = Finished(@, "not_found")]
       ELSE IF Truthy(documents[d].ragflow_document_id)
       THEN poll' = [poll EXCEPT ![d] = [@ EXCEPT !.pc = "await", !.snap = documents[d],
                                                  !.calls = @ + 1]]
       ELSE /\ poll[d].attempt < cap
            /\ poll' = [poll EXCEPT ![d] = NextAttempt(@)]
    /\ UNCHANGED <<documents, created, conversations, up, gs, del, batch, applied, writers>>

\* main.py 521-531: the top of one iteration, up to the gateway call
poll_document_status_iterate(d, cap) ==
    /\ poll[d].pc = "loop"
    /\ IF ~Exists(d)
       THEN poll' = [poll EXCEPT ![d] = Finished(@, "not_found")]
       ELSE IF documents[d].processing_status # "processing"
       THEN poll' = [poll EXCEPT ![d] = Finished(@, "not_processing")]
       ELSE IF Truthy(documents[d].ragflow_document_id)
       THEN poll' = [poll EXCEPT ![d] = [@ EXCEPT !.pc = "await", !.snap = documents[d],
                                                  !.calls = @ + 1]]
       ELSE /\ poll[d].attempt < cap
            /\ poll' = [poll EXCEPT ![d] = NextAttempt(@)]
    /\ UNCHANGED <<documents, created, conversations, up, gs, del, batch, applied, writers>>

\* main.py 531-561: the gateway status call returned
poll_document_status_reply(d, reply, cap) ==
    /\ poll[d].pc = "await"
    /\ LET snap == poll[d].snap
           obj == PollAssign(snap, reply) IN
        IF Dirty(snap, obj)
        THEN IF Exists(d)
             THEN /\ documents' = [documents EXCEPT ![d] = CommitRow(documents[d], snap, obj)]
                  /\ poll' = [poll EXCEPT ![d] = Finished([@ EXCEPT !.snap = NewDocument], "terminal")]
                  /\ applied' = Note(applied, d, reply.data)
                  /\ writers' = Note(writers, d, "poll")
             ELSE \* StaleDataError, caught at 555: the loop breaks
                  /\ poll' = [poll EXCEPT ![d] = Finished([@ EXCEPT !.snap = NewDocument], "exception")]
                  /\ UNCHANGED <<documents, applied, writers>>
        ELSE /\ poll[d].attempt < cap
             /\ poll' = [poll EXCEPT ![d] = NextAttempt([@ EXCEPT !.snap = NewDocument])]
             /\ UNCHANGED <<documents, applied, writers>>
    /\ UNCHANGED <<created, conversations, up, gs, del, batch>>

\* ----------------------------------------------------- get_document_status
StatusAssign_NoDefault(obj, reply) ==
    IF reply.status = "success" /\ reply.data.status = "completed"
    THEN [obj EXCEPT !.processing_status = "completed",
                     !.page_count = reply.data.page_count,
                     !.doc_metadata = reply.data.metadata]
    ELSE IF reply.status = "success" /\ reply.data.status = "failed"
    THEN [obj EXCEPT !.processing_status = "failed"]
    ELSE obj

\* main.py 631-638: what the on-demand check assigns to its Document object
StatusAssign(obj, reply) ==
    IF reply.status = "success" /\ reply.data.status = "completed"
    THEN [obj EXCEPT !.processing_status = "completed",
                     !.page_count = reply.data.page_count,
                     !.doc_metadata = Get(reply.data.metadata, EmptyMap)]
    ELSE IF reply.status = "success" /\ reply.data.status = "failed"
    THEN [obj EXCEPT !.processing_status = "failed"]
    ELSE obj

\* main.py 625: the condition under which the check asks the gateway
NeedsGateway(doc) ==
    doc.processing_status = "processing" /\ Truthy(doc.ragflow_document_id)

\* main.py 620-622, 640: the answer of a check that does not ask the gateway
get_document_status_code(d) == IF Exists(d) THEN 200 ELSE 404

\* main.py 620-626: the request arrives
get_document_status_begin(d) ==
    /\ gs[d].pc = "idle"
    /\ IF get_document_status_code(d) = 200 /\ NeedsGateway(documents[d])
       THEN /\ InFlight < MaxInFlight
            /\ gs' = [gs EXCEPT ![d] = [pc |-> "await", snap |-> documents[d],
                                         late |-> poll[d].reason = "exhausted"]]
       ELSE UNCHANGED gs
    /\ UNCHANGED <<documents, created, conversations, up, poll, del, batch, applied, writers>>

get_document_status_reply_Recreates(d, reply) ==
    /\ gs[d].pc = "await"
    /\ gs' = [gs EXCEPT ![d] = IdleCheck]
    /\ LET snap == gs[d].snap
           obj == StatusAssign(snap, reply) IN
        IF Dirty(snap, obj)
        THEN /\ documents' = [x \in (DOMAIN documents) \cup {d} |->
                                IF x # d THEN documents[x]
                                ELSE IF Exists(d) THEN CommitRow(documents[d], snap, obj) ELSE obj]
             /\ applied' = Note(applied, d, reply.data)
             /\ writers' = Note(writers, d, IF gs[d].late THEN "status_after_budget" ELSE "status")
        ELSE UNCHANGED <<documents, applied, writers>>
    /\ UNCHANGED <<created, conversations, up, poll, del, batch>>

\* main.py 626-651: the gateway status call returned
get_document_status_reply(d, reply) ==
    /\ gs[d].pc = "await"
    /\ gs' = [gs EXCEPT ![d] = IdleCheck]
    /\ LET snap == gs[d].snap
           obj == StatusAssign(snap, reply) IN
        IF Dirty(snap, obj) /\ Exists(d)
        THEN /\ documents' = [documents EXCEPT ![d] = CommitRow(documents[d], snap, obj)]
             /\ applied' = Note(applied, d, reply.data)
             /\ writers' = Note(writers, d, IF gs[d].late THEN "status_after_budget" ELSE "status")
        ELSE \* nothing to write; or StaleDataError, caught at 649 and answered 500
             UNCHANGED <<documents, applied, writers>>
    /\ UNCHANGED <<created, conversations, up, poll, del, batch>>

\* ------------------------------------------------ poll_processing_documents
BatchAssign_NoPageCount(obj, reply) ==
    IF reply.status = "success" /\ reply.data.status = "completed"
    THEN [obj EXCEPT !.processing_status = "completed",
                     !.doc_metadata = Get(reply.data.metadata, EmptyMap)]
    ELSE IF reply.status = "success" /\ reply.data.status = "failed"
    THEN [obj EXCEPT !.processing_status = "failed"]
    ELSE obj

BatchAssign_IgnoresFailed(obj, reply) ==
    IF reply.status = "success" /\ reply.data.status = "completed"
    THEN [obj EXCEPT !.processing_status = "completed",
                     !.page_count = reply.data.page_count,
                     !.doc_metadata = Get(reply.data.metadata, EmptyMap)]
    ELSE obj

\* main.py 669-676: what the batch assigns to one of its Document objects
BatchAssign(obj, reply) ==
    IF reply.status = "success" /\ reply.data.status = "completed"
    THEN [obj EXCEPT !.processing_status = "completed",
                     !.page_count = reply.data.page_count,
                     !.doc_metadata = Get(reply.data.metadata, EmptyMap)]
    ELSE IF reply.status = "success" /\ reply.data.status = "failed"
    THEN [obj EXCEPT !.processing_status = "failed"]
    ELSE obj

\* main.py 657-659: the rows the batch loads
ProcessingDocs == {d \in DOMAIN documents : documents[d].processing_status = "processing"}

\* main.py 663: the loaded objects the batch asks the gateway about
BatchAsks(snap) == {d \in DOMAIN snap : Truthy(snap[d].ragflow_document_id)}

\* the Document object of d in the batch's session: as loaded, with the
\* assignments made for the reply received for it
BatchObj(b, d) ==
    IF d \in DOMAIN b.reply THEN BatchAssign(b.snap[d], b.reply[d]) ELSE b.snap[d]

BatchDirty(b) == {d \in DOMAIN b.snap : Dirty(b.snap[d], BatchObj(b, d))}

\* main.py 678: the single commit of the batch writes every changed object
BatchCommit(table, b) ==
    [d \in DOMAIN table |->
        IF d \in BatchDirty(b) THEN CommitRow(table[d], b.snap[d], BatchObj(b, d)) ELSE table[d]]

\* main.py 657-664: the request arrives and loads the processing documents
poll_processing_documents_begin ==
    /\ batch.pc = "idle"
    /\ LET snap == [d \in ProcessingDocs |-> documents[d]]
           asks == BatchAsks(snap) IN
        IF asks = {}
        THEN UNCHANGED batch
        ELSE /\ InFlight < MaxInFlight
             /\ \E first \in asks :
                    batch' = [pc |-> "await", cur |-> first, todo |-> asks \ {first},
                              snap |-> snap, reply |-> <<>>]
    /\ UNCHANGED <<documents, created, conversations, up, poll, gs, del, applied, writers>>

\* main.py 664-687: a gateway status call of the batch returned
poll_processing_documents_reply(reply) ==
    /\ batch.pc = "await"
    /\ LET b == [batch EXCEPT !.reply = [d \in (DOMAIN batch.reply) \cup {batch.cur} |->
                                            IF d = batch.cur THEN reply ELSE batch.reply[d]]] IN
        IF b.todo # {}
        THEN /\ \E n \in b.todo : batch' = [b EXCEPT !.cur = n, !.todo = @ \ {n}]
             /\ UNCHANGED <<documents, applied, writers>>
        ELSE /\ batch' = IdleBatch
             /\ IF BatchDirty(b) \subseteq DOMAIN documents
                THEN /\ documents' = BatchCommit(documents, b)
                     /\ applied' = [d \in DocIds |->
                            IF d \in BatchDirty(b) THEN applied[d] \cup {b.reply[d].data} ELSE applied[d]]
                     /\ writers' = [d \in DocIds |->
                            IF d \in BatchDirty(b) THEN writers[d] \cup {"batch"} ELSE writers[d]]
                ELSE \* StaleDataError, caught at 685: nothing is written, answered 500
                     UNCHANGED <<documents, applied, writers>>
    /\ UNCHANGED <<created, conversations, up, poll, gs, del>>

\* ---------------------------------------------------------- delete_document
\* main.py 572-574: the conversations whose document set contains d
ConversationsUsing(d) ==
    {i \in 1..Len(conversations) :
        \E k \in 1..Len(conversations[i].document_ids) : conversations[i].document_ids[k] = d}

\* main.py 567-580: the answer of the checks made before anything is deleted
delete_document_code(d) ==
    IF ~Exists(d) THEN 404
    ELSE IF Cardinality(ConversationsUsing(d)) > 0 THEN 400
    ELSE 200

\* main.py 567-585 (and 593-609 when there is no external reference)
delete_document_begin(d) ==
    /\ del[d] = "idle"
    /\ IF delete_document_code(d) # 200
       THEN UNCHANGED <<documents, del>>
       ELSE IF Truthy(documents[d].ragflow_document_id)
       THEN /\ InFlight < MaxInFlight
            /\ del' = [del EXCEPT ![d] = "await"]
            /\ UNCHANGED documents
       ELSE /\ documents' = Without(documents, d)
            /\ UNCHANGED del
    /\ UNCHANGED <<created, conversations, up, poll, gs, batch, applied, writers>>

delete_document_reply_KeepsOnError(d, reply) ==
    /\ del[d] = "await"
    /\ del' = [del EXCEPT ![d] = "idle"]
    /\ documents' = IF reply = "success" THEN Without(documents, d) ELSE documents
    /\ UNCHANGED <<created, conversations, up, poll, gs, batch, applied, writers>>

\* main.py 585-609: the gateway delete call returned, or raised; either way
\* the row is deleted
delete_document_reply(d, reply) ==
    /\ del[d] = "await"
    /\ del' = [del EXCEPT ![d] = "idle"]
    /\ documents' = Without(documents, d)
    /\ UNCHANGED <<created, conversations, up, poll, gs, batch, applied, writers>>

\* ------------------------------------------------------ create_conversation
ConvRequests ==
    UNION {[1..n -> DocIds \cup {GhostId}] : n \in 0..MaxRequestLen}

CompletedAmong_AnyStatus(ids) ==
    {d \in DOMAIN documents : \E k \in 1..Len(ids) : ids[k] = d}

\* main.py 727-730: the rows the validation query returns
CompletedAmong(ids) ==
    {d \in DOMAIN documents :
        /\ \E k \in 1..Len(ids) : ids[k] = d
        /\ documents[d].processing_status = "completed"}

\* main.py 732-736, 753: 400 unless the query found as many rows as ids
\* were requested
create_conversation_code(ids) ==
    IF Cardinality(CompletedAmong(ids)) # Len(ids) THEN 400 ELSE 200

\* main.py 726-766; the handler awaits nothing
create_conversation(ids) ==
    /\ IF create_conversation_code(ids) = 200
       THEN /\ Len(conversations) < MaxConvs
            /\ conversations' = Append(conversations, [document_ids |-> ids])
       ELSE UNCHANGED conversations
    /\ UNCHANGED <<documents, created, up, poll, gs, del, batch, applied, writers>>

\* ------------------------------------------------------ citation normalizer
\* ragflow_client.py 170, 183: the excerpt limit; 208: the cap of the list
excerpt_limit == 200
max_citations == 5

\* a string of n characters c
Text(c, n) == [i \in 1..n |-> c]
Ellipsis == <<".", ".", ".">>

\* A value under a key of a JSON object: the key is absent, or its value is
\* null, or of a type the reader cannot use ("wrong": a list where a string
\* or a number is expected, a word where a number is expected, a number
\* where a text is expected), or usable ("ok").
Absent(filler) == [kind |-> "absent", v |-> filler]
Null(filler) == [kind |-> "null", v |-> filler]
Wrong(filler) == [kind |-> "wrong", v |-> filler]
Ok(value) == [kind |-> "ok", v |-> value]

\* dict.get(key, default): the default only when the key is absent
DictGet(field, default) == IF field.kind = "absent" THEN Ok(default) ELSE field

\* dict.get(key) for an Optional[int] attribute of Citation
OptionalInt(field) == IF field.kind = "ok" THEN Some(field.v) ELSE NULL

\* the outcome of an expression: it raises, or it returns a value
Raises == <<>>
Returns(x) == <<x>>

\* ragflow_client.py 9-16: Citation(...) validates its arguments; a null or
\* a value of the wrong type for document_id, page_number, text_excerpt or
\* confidence, and a value of the wrong type for a position, is a
\* ValidationError
Citation(document_id, page_number, text_excerpt, start_position, end_position, confidence) ==
    IF /\ document_id.kind = "ok" /\ page_number.kind = "ok"
       /\ text_excerpt.kind = "ok" /\ confidence.kind = "ok"
       /\ start_position.kind # "wrong" /\ end_position.kind # "wrong"
    THEN Returns([document_id |-> document_id.v,
                  page_number |-> page_number.v,
                  text_excerpt |-> text_excerpt.v,
                  start_position |-> OptionalInt(start_position),
                  end_position |-> OptionalInt(end_position),
                  confidence |-> confidence.v])
    ELSE Raises

\* ragflow_client.py 170, 183: text[:200] + "..." if len(text) > 200 else text
Excerpt(text) ==
    IF Len(text) > excerpt_limit THEN SubSeq(text, 1, excerpt_limit) \o Ellipsis ELSE text

\* ragflow_client.py 167-174: one entry of sources; len() of a text that is
\* not a string raises, .get of an entry that is not a mapping raises
FromSource(source) ==
    IF ~source.mapping THEN Raises
    ELSE LET text == DictGet(source.text, <<>>) IN
        IF text.kind # "ok" THEN Raises
        ELSE Citation(DictGet(source.document_id, ""),
                      DictGet(source.page_number, 1),
                      Ok(Excerpt(text.v)),
                      source.start_position,
                      source.end_position,
                      DictGet(source.score, 0))

\* ragflow_client.py 180-185: one entry of chunks
FromChunk(chunk) ==
    IF ~chunk.mapping THEN Raises
    ELSE LET content == DictGet(chunk.content, <<>>) IN
        IF content.kind # "ok" THEN Raises
        ELSE Citation(DictGet(chunk.doc_id, ""),
                      DictGet(chunk.page_num, 1),
                      Ok(Excerpt(content.v)),
                      Absent(0),
                      Absent(0),
                      DictGet(chunk.similarity_score, 0))

\* ragflow_client.py 191-196: one entry of references; the excerpt is taken
\* as it is
FromReference(ref) ==
    IF ~ref.mapping THEN Raises
    ELSE Citation(DictGet(ref.document_id, ""),
                  DictGet(ref.page, 1),
                  DictGet(ref.excerpt, <<>>),
                  Absent(0),
                  Absent(0),
                  DictGet(ref.relevance, 0))

\* the loops of 166-175, 179-186, 190-197: every entry in order
ConvertedSources(entries) == [i \in 1..Len(entries) |-> FromSource(entries[i])]
ConvertedChunks(entries) == [i \in 1..Len(entries) |-> FromChunk(entries[i])]
ConvertedReferences(entries) == [i \in 1..Len(entries) |-> FromReference(entries[i])]
AnyRaises(outcomes) == \E i \in 1..Len(outcomes) : outcomes[i] = Raises
Values(outcomes) == [i \in 1..Len(outcomes) |-> outcomes[i][1]]

\* ragflow_client.py 199-206: the first citation of every
\* (document_id, page_number) pair, in encounter order
Unique(cs) ==
    LET step[i \in 0..Len(cs)] ==
            IF i = 0 THEN [seen |-> {}, unique_citations |-> <<>>]
            ELSE LET before == step[i - 1]
                     key == <<cs[i].document_id, cs[i].page_number>> IN
                 IF key \in before.seen THEN before
                 ELSE [seen |-> before.seen \cup {key},
                       unique_citations |-> Append(before.unique_citations, cs[i])]
    IN step[Len(cs)].unique_citations

\* list[:n]
Prefix(list, n) == SubSeq(list, 1, IF Len(list) < n THEN Len(list) ELSE n)

\* .get(shape, []): the list to iterate; a null value is not iterable
Entries(shape) == IF shape.kind = "ok" THEN shape.v ELSE <<>>

ReadsNext_Always(collected, shape) == Entries(shape) # <<>>

\* ragflow_client.py 178, 189: "if not citations and chunks": the next shape
\* is read when nothing was collected and its value is a non-empty list
ReadsNext(collected, shape) == collected = <<>> /\ Entries(shape) # <<>>

\* ragflow_client.py 166-175: the outcomes collected from sources
AfterSources(response) == ConvertedSources(Entries(response.sources))

\* ragflow_client.py 178-186: ... and from chunks
AfterChunks(response) ==
    LET collected == AfterSources(response) IN
    IF ReadsNext(collected, response.chunks)
    THEN collected \o ConvertedChunks(Entries(response.chunks))
    ELSE collected

\* ragflow_client.py 189-197: ... and from references
AfterReferences(response) ==
    LET collected == AfterChunks(response) IN
    IF ReadsNext(collected, response.references)
    THEN collected \o ConvertedReferences(Entries(response.references))
    ELSE collected

\* ragflow_client.py 159-212: something inside the try block raises: .get of
\* a response that is not a mapping, the loop over a sources value that is
\* null, or the conversion of an entry (the first one that raises ends the
\* block, so no later shape is read)
ExtractionRaises(response) ==
    \/ ~response.mapping
    \/ response.sources.kind = "null"
    \/ AnyRaises(AfterReferences(response))

Cap_None(list) == list

\* ragflow_client.py 208
Cap(list) == Prefix(list, max_citations)

extract_citations_CapsFirst(response) ==
    IF ExtractionRaises(response) THEN Returns(<<>>)
    ELSE Returns(Unique(Cap(Values(AfterReferences(response)))))

extract_citations_Reraises(response) ==
    IF ExtractionRaises(response) THEN Raises
    ELSE Returns(Cap(Unique(Values(AfterReferences(response)))))

\* ragflow_client.py 155-212: the outcome of the call
extract_citations(response) ==
    IF ExtractionRaises(response) THEN Returns(<<>>)
    ELSE Returns(Cap(Unique(Values(AfterReferences(response)))))

format_citation_DropsPositions(citation) ==
    [document_id |-> citation.document_id,
     page_number |-> citation.page_number,
     text_excerpt |-> citation.text_excerpt,
     start_position |-> NULL,
     end_position |-> NULL,
     confidence |-> citation.confidence]

\* ragflow_client.py 217-224: the mapping made of one citation
format_citation(citation) ==
    [document_id |-> citation.document_id,
     page_number |-> citation.page_number,
     text_excerpt |-> citation.text_excerpt,
     start_position |-> citation.start_position,
     end_position |-> citation.end_position,
     confidence |-> citation.confidence]

\* ragflow_client.py 214-226
format_citations_for_storage(list) == [i \in 1..Len(list) |-> format_citation(list[i])]

\* --------------------------------------- the responses given to the functions
LongText == Text("A", excerpt_limit + 50)

DocumentIdFields == {Ok("r1"), Ok("r2"), Ok("x"), Absent(""), Null(""), Wrong("")}
PageFields == {Ok(3), Ok(4), Ok(0), Absent(0), Null(0), Wrong(0)}
TextFields ==
    {Ok(Text("A", 1)), Ok(Text("B", 1)), Ok(Text("A", excerpt_limit)),
     Ok(Text("A", excerpt_limit + 1)), Ok(LongText),
     Absent(<<>>), Null(<<>>), Wrong(<<>>)}
ScoreFields == {Ok(90), Absent(0), Null(0), Wrong(0)}
PositionFields == {Ok(5), Absent(0), Null(0), Wrong(0)}

\* an entry that is not a mapping (a string, a number, null)
NotAnEntry(entry) == [entry EXCEPT !.mapping = FALSE]

BaseSource ==
    [mapping |-> TRUE, document_id |-> Ok("r1"), page_number |-> Ok(3),
     text |-> Ok(Text("A", 1)), start_position |-> Ok(5), end_position |-> Ok(9),
     score |-> Ok(90)]

\* the entries that differ from BaseSource in one field
SourceEntries ==
    {[BaseSource EXCEPT !.document_id = f] : f \in DocumentIdFields}
    \cup {[BaseSource EXCEPT !.page_number = f] : f \in PageFields}
    \cup {[BaseSource EXCEPT !.text = f] : f \in TextFields}
    \cup {[BaseSource EXCEPT !.score = f] : f \in ScoreFields}
    \cup {[BaseSource EXCEPT !.start_position = f] : f \in PositionFields}
    \cup {[BaseSource EXCEPT !.end_position = f] : f \in PositionFields}
    \cup {NotAnEntry(BaseSource)}

BaseChunk ==
    [mapping |-> TRUE, doc_id |-> Ok("r2"), page_num |-> Ok(7),
     content |-> Ok(Text("C", 1)), similarity_score |-> Ok(80)]

ChunkEntries ==
    {BaseChunk, NotAnEntry(BaseChunk),
     [BaseChunk EXCEPT !.doc_id = Absent("")],
     [BaseChunk EXCEPT !.page_num = Absent(0)],
     [BaseChunk EXCEPT !.page_num = Null(0)],
     [BaseChunk EXCEPT !.content = Ok(LongText)],
     [BaseChunk EXCEPT !.content = Absent(<<>>)],
     [BaseChunk EXCEPT !.similarity_score = Absent(0)]}

BaseReference ==
    [mapping |-> TRUE, document_id |-> Ok("r1"), page |-> Ok(9),
     excerpt |-> Ok(Text("E", 1)), relevance |-> Ok(70)]

ReferenceEntries ==
    {BaseReference, NotAnEntry(BaseReference),
     [BaseReference EXCEPT !.document_id = Absent("")],
     [BaseReference EXCEPT !.page = Absent(0)],
     [BaseReference EXCEPT !.page = Wrong(0)],
     [BaseReference EXCEPT !.excerpt = Ok(LongText)],
     [BaseReference EXCEPT !.excerpt = Absent(<<>>)],
     [BaseReference EXCEPT !.relevance = Absent(0)]}

\* the lists of at most n entries
ListsUpTo(entries, n) == UNION {[1..k -> entries] : k \in 0..n}

\* lists of more than max_citations entries: one entry per page of pages
PageRuns == {<<1, 2, 3, 4, 5, 6>>, <<1, 1, 2, 3, 1, 4, 5, 6, 7>>}
SourceRun(pages) == [i \in 1..Len(pages) |-> [BaseSource EXCEPT !.page_number = Ok(pages[i])]]
ChunkRun(pages) == [i \in 1..Len(pages) |-> [BaseChunk EXCEPT !.page_num = Ok(pages[i])]]
ReferenceRun(pages) == [i \in 1..Len(pages) |-> [BaseReference EXCEPT !.page = Ok(pages[i])]]

\* the value under a shape key: absent, null, or a list
Shapes(lists) == {Absent(<<>>), Null(<<>>)} \cup {Ok(l) : l \in lists}

NotAMapping ==
    [mapping |-> FALSE, sources |-> Absent(<<>>), chunks |-> Absent(<<>>),
     references |-> Absent(<<>>)]

Responses ==
    {NotAMapping}
    \cup [mapping : {TRUE},
          sources : Shapes(ListsUpTo(SourceEntries, MaxSources)
                           \cup {SourceRun(p) : p \in PageRuns}),
          chunks : Shapes(ListsUpTo(ChunkEntries, MaxOthers)
                           \cup {ChunkRun(p) : p \in PageRuns}),
          references : Shapes(ListsUpTo(ReferenceEntries, MaxOthers)
                           \cup {ReferenceRun(p) : p \in PageRuns})]

\* ------------------------------------------- the functions, called in turn
NormalizerIdle ==
    /\ normalizer = "idle"
    /\ ragflow_response = NotAMapping
    /\ citations = Returns(<<>>)
    /\ citations_for_storage = <<>>

\* a response is handed to extract_citations
extract_citations_call ==
    /\ normalizer = "input"
    /\ normalizer' = "extracted"
    /\ citations' = extract_citations(ragflow_response)
    /\ UNCHANGED <<ragflow_response, citations_for_storage>>

\* main.py 895-896: the list returned is handed to format_citations_for_storage
format_citations_for_storage_call ==
    /\ normalizer = "extracted"
    /\ citations # Raises
    /\ normalizer' = "stored"
    /\ citations_for_storage' = format_citations_for_storage(citations[1])
    /\ UNCHANGED <<ragflow_response, citations>>

\* ------------------------------------------------------------ the chat turn
\* A question and the content of a message are sequences of characters; the
\* texts the program builds from them are sequences of characters and of the
\* literal pieces of its templates.
NUL == "NUL"
IsSpace(c) == c \in {" ", "\n", "\r", "\t"}
IsControl(c) == c = NUL

Least(S) == CHOOSE x \in S : \A y \in S : x <= y
Greatest(S) == CHOOSE x \in S : \A y \in S : x >= y

\* str.strip()
Strip(text) ==
    LET n == Len(text)
        first == CHOOSE i \in 1..(n + 1) :
                    (i = n + 1 \/ ~IsSpace(text[i])) /\ \A j \in 1..(i - 1) : IsSpace(text[j])
        last == CHOOSE i \in 0..n :
                    (i = 0 \/ ~IsSpace(text[i])) /\ \A j \in (i + 1)..n : IsSpace(text[j])
    IN IF first > last THEN <<>> ELSE SubSeq(text, first, last)

max_length == 10000

\* main.py 94-110
sanitize_user_input(text) ==
    IF text = <<>> THEN <<>>
    ELSE LET stripped == Strip(text)
             NotControl(c) == ~IsControl(c)
             cleaned == SelectSeq(stripped, NotControl) IN
         IF Len(cleaned) > max_length THEN SubSeq(cleaned, 1, max_length) ELSE cleaned

\* a chat request: the question and the document ids; WellFormed says
\* whether every id parses as a UUID
ChatRequest(question, document_ids) == [question |-> question, document_ids |-> document_ids]
WellFormed(id) == id \in DocIds \cup {GhostId}
\* an id that does not parse as a UUID
MalformedId == 0

validate_chat_request_detail_NoMinimum(request) ==
    IF request.question = <<>> \/ Strip(request.question) = <<>> THEN "Question cannot be empty."
    ELSE IF request.document_ids = <<>> THEN "At least one document ID must be provided."
    ELSE IF \E k \in 1..Len(request.document_ids) : ~WellFormed(request.document_ids[k])
    THEN "Invalid document ID format"
    ELSE ""

\* main.py 112-143: the detail of the HTTPException the validation raises (142:
\* followed by the id), ""
\* when it raises none
validate_chat_request_detail(request) ==
    IF request.question = <<>> \/ Strip(request.question) = <<>> THEN "Question cannot be empty."
    ELSE IF Len(sanitize_user_input(request.question)) < 3
    THEN "Question must be at least 3 characters long."
    ELSE IF request.document_ids = <<>> THEN "At least one document ID must be provided."
    ELSE IF \E k \in 1..Len(request.document_ids) : ~WellFormed(request.document_ids[k])
    THEN "Invalid document ID format"
    ELSE ""

\* main.py 112-143: the status the validation raises, 200 when it raises none
validate_chat_request_code(request) ==
    IF validate_chat_request_detail(request) # "" THEN 400 ELSE 200

\* the name the upload stored with document d
FileNames == <<"f1.pdf", "f2.pdf", "f3.pdf", "f4.pdf">>
original_filename(d) == FileNames[d]

\* str(doc.id)
str(d) == ToString(d)

\* main.py 839-844: the last 10 messages of the conversation, oldest first
history_limit == 10

Of(conversation_id) == {i \in 1..Len(messages) : messages[i].conversation_id = conversation_id}

RECURSIVE InOrder(_)
\* the messages at the positions S, oldest first
InOrder(S) ==
    IF S = {} THEN <<>>
    ELSE LET i == Least(S) IN <<messages[i]>> \o InOrder(S \ {i})

\* list[-n:]
Suffix(list, n) ==
    IF Len(list) <= n THEN list ELSE SubSeq(list, Len(list) - n + 1, Len(list))

conversation_history(conversation_id) == Suffix(InOrder(Of(conversation_id)), history_limit)

\* main.py 847-853, 867-870: role and content of the history, then the new
\* user message
ContextEntry(msg) == [role |-> msg.role, content |-> msg.content]

conversation_context(conversation_id, question) ==
    [i \in 1..Len(conversation_history(conversation_id)) |->
        ContextEntry(conversation_history(conversation_id)[i])]
    \o <<[role |-> "user", content |-> question]>>

\* ragflow_client.py 85: the window of the context that is rendered
context_window == 10

\* ragflow_client.py 90-91: one line of the context block
RenderedLine(entry) ==
    <<IF entry.role = "user" THEN "Human" ELSE "Assistant", ": ">> \o entry.content

RECURSIVE JoinLines(_)
\* "\n".join(lines)
JoinLines(lines) ==
    IF lines = <<>> THEN <<>>
    ELSE IF Len(lines) = 1 THEN lines[1]
    ELSE lines[1] \o <<"\n">> \o JoinLines(Tail(lines))

context_string(context) ==
    JoinLines([i \in 1..Len(Suffix(context, context_window)) |->
                    RenderedLine(Suffix(context, context_window)[i])])

\* ragflow_client.py 75-98: the payload of the query; conversation_context is
\* NULL when the key is not in the payload
QueryPayload(question, document_ids, context) ==
    IF context # <<>>
    THEN [question |-> <<"Given our previous conversation:\n">> \o context_string(context)
                        \o <<"\n\nNew question: ">> \o question,
          document_ids |-> document_ids,
          conversation_context |-> Some(context_string(context))]
    ELSE [question |-> question,
          document_ids |-> document_ids,
          conversation_context |-> NULL]

\* ----------------------------------------------------------- send_message
ConvIds == 1..MaxConvs
GhostConv == MaxConvs + 1
ChatSlots == 1..MaxChats

IdleTurn ==
    [pc |-> "idle", conversation_id |-> 0, question |-> <<>>, documents |-> <<>>,
     payload |-> QueryPayload(<<>>, {}, <<>>), code |-> 0, detail |-> "", prior |-> 0]

ChatIdle ==
    /\ messages = <<>>
    /\ chat = [started |-> 0, turn |-> [s \in ChatSlots |-> IdleTurn]]

UserMessage(conversation_id, question) ==
    [conversation_id |-> conversation_id, role |-> "user", content |-> question,
     citations |-> NULL, confidence_score |-> NULL]

\* main.py 827-830: the rows of the validation query, in every order the
\* database may return them
Orders(S) == {seq \in [1..Cardinality(S) -> S] : \A d \in S : \E k \in 1..Cardinality(S) : seq[k] = d}

\* main.py 873: the external references of the documents found
ragflow_doc_ids(docs) ==
    {docs[k].ragflow_document_id[1] : k \in {j \in 1..Len(docs) : Truthy(docs[j].ragflow_document_id)}}

\* main.py 816-836: the status raised before anything is written, 200 when
\* none is
send_message_code(conversation_id, request) ==
    IF validate_chat_request_code(request) # 200 THEN 400
    ELSE IF conversation_id \notin 1..Len(conversations) THEN 404
    ELSE IF Cardinality(CompletedAmong(request.document_ids)) # Len(request.document_ids) THEN 400
    ELSE 200

\* main.py 816-836: the detail of that status
send_message_detail(conversation_id, request) ==
    IF validate_chat_request_code(request) # 200 THEN validate_chat_request_detail(request)
    ELSE IF conversation_id \notin 1..Len(conversations) THEN "Conversation not found"
    ELSE IF Cardinality(CompletedAmong(request.document_ids)) # Len(request.document_ids)
    THEN "One or more documents not found or not yet processed"
    ELSE ""

\* main.py 838-886 and ragflow_client.py 75-101: the request passed the
\* checks; the user message is stored and the query is posted
send_message_accepted(s, conversation_id, request) ==
            LET question == sanitize_user_input(request.question) IN
            /\ messages' = Append(messages, UserMessage(conversation_id, question))
            /\ \E order \in Orders(CompletedAmong(request.document_ids)) :
                LET docs == [k \in 1..Len(order) |->
                                [id |-> order[k],
                                 ragflow_document_id |-> documents[order[k]].ragflow_document_id]]
                    turn == IF ragflow_doc_ids(docs) = {}
                            THEN [IdleTurn EXCEPT !.code = 400,
                                                  !.detail = "No valid RAGFlow document IDs found"]
                            ELSE [pc |-> "await",
                                  conversation_id |-> conversation_id,
                                  question |-> question,
                                  documents |-> docs,
                                  payload |-> QueryPayload(question, ragflow_doc_ids(docs),
                                                conversation_context(conversation_id, question)),
                                  code |-> 0,
                                  detail |-> "",
                                  prior |-> Cardinality(Of(conversation_id))]
                IN chat' = [started |-> chat.started + 1,
                            turn |-> [chat.turn EXCEPT ![s] = turn]]

\* main.py 816-886: the request arrives; it is rejected, or accepted
send_message_begin(s, conversation_id, request) ==
    /\ chat.turn[s].pc = "idle"
    /\ chat.started < MaxTurns
    /\ IF send_message_code(conversation_id, request) # 200
       THEN /\ messages' = messages
            /\ chat' = [chat EXCEPT !.turn[s] =
                            [IdleTurn EXCEPT !.code = send_message_code(conversation_id, request),
                                             !.detail = send_message_detail(conversation_id, request)]]
       ELSE send_message_accepted(s, conversation_id, request)

\* ------------------------------------------------------------- quick_chat
\* main.py 970-985: without conversation_id the handler first calls
\* create_conversation with the document ids of the request, which creates
\* the conversation or raises 400 (726-749), and then send_message on the new
\* conversation, which validates the request (816) and rejects or accepts it
quick_chat_begin(s, request) ==
    /\ chat.turn[s].pc = "idle"
    /\ chat.started < MaxTurns
    /\ IF create_conversation_code(request.document_ids) # 200
       THEN /\ chat' = [chat EXCEPT !.turn[s] =
                        [IdleTurn EXCEPT !.code = 400,
                                         !.detail = "One or more documents not found or not yet processed"]]
            /\ UNCHANGED <<messages, conversations>>
       ELSE /\ Len(conversations) < MaxConvs + MaxQuick
            /\ conversations' = Append(conversations, [document_ids |-> request.document_ids])
            /\ IF validate_chat_request_code(request) # 200
               THEN /\ messages' = messages
                    /\ chat' = [chat EXCEPT !.turn[s] =
                                [IdleTurn EXCEPT !.code = 400,
                                                 !.detail = validate_chat_request_detail(request)]]
               ELSE send_message_accepted(s, Len(conversations) + 1, request)
    /\ UNCHANGED <<documents, created, up, poll, gs, del, batch, applied, writers>>

\* main.py 890: the answer when the response has none
default_answer == <<"I couldn't find an answer to your question.">>

\* main.py 899-903: doc_id_mapping[ragflow_doc_id]: in the dict comprehension the
\* last document with a reference wins
Mapped(docs, ragflow_doc_id) ==
    docs[Greatest({k \in 1..Len(docs) : docs[k].ragflow_document_id = Some(ragflow_doc_id)})].id

\* main.py 905: next(doc for doc in documents if ...): the first one
Matching(docs, ragflow_doc_id) ==
    docs[Least({k \in 1..Len(docs) : docs[k].ragflow_document_id = Some(ragflow_doc_id)})].id

\* main.py 900-907: one stored citation after the mapping to local documents
Remapped(citation, docs) ==
    IF \E k \in 1..Len(docs) : docs[k].ragflow_document_id = Some(citation.document_id)
    THEN [document_id |-> str(Mapped(docs, citation.document_id)),
          document_filename |-> original_filename(Matching(docs, citation.document_id)),
          page_number |-> citation.page_number,
          text_excerpt |-> citation.text_excerpt,
          start_position |-> citation.start_position,
          end_position |-> citation.end_position,
          confidence |-> citation.confidence]
    ELSE citation

\* main.py 894-912: the citations stored with the assistant message
StoredCitations(response_data, docs) ==
    LET extracted_citations == extract_citations(response_data)[1]
        stored == format_citations_for_storage(extracted_citations) IN
    [i \in 1..Len(stored) |-> Remapped(stored[i], docs)]

\* main.py 915-921: the assistant message of a successful query
AnswerMessage(conversation_id, response_data, docs) ==
    [conversation_id |-> conversation_id, role |-> "assistant",
     content |-> DictGet(response_data.answer, default_answer).v,
     citations |-> Some(StoredCitations(response_data, docs)),
     confidence_score |-> Some(DictGet(response_data.confidence_score, 0).v)]

ErrorMessage_WithoutReason(conversation_id, message) ==
    [conversation_id |-> conversation_id, role |-> "assistant",
     content |-> <<"I'm sorry, I encountered an error while processing your question: ">>,
     citations |-> NULL, confidence_score |-> NULL]

\* main.py 940-945: the assistant message of a failed query
ErrorMessage(conversation_id, message) ==
    [conversation_id |-> conversation_id, role |-> "assistant",
     content |-> <<"I'm sorry, I encountered an error while processing your question: ">> \o message,
     citations |-> NULL, confidence_score |-> NULL]

\* main.py 882-965: the query returned
send_message_reply(s, reply) ==
    /\ chat.turn[s].pc = "await"
    /\ LET turn == chat.turn[s] IN
        IF reply.status = "success"
        THEN IF reply.data.mapping
             THEN /\ messages' = Append(messages,
                        AnswerMessage(turn.conversation_id, reply.data, turn.documents))
                  /\ chat' = [chat EXCEPT !.turn[s] = [IdleTurn EXCEPT !.code = 200]]
             ELSE \* response_data.get raises: caught at 963, answered 500
                  /\ chat' = [chat EXCEPT !.turn[s] = [IdleTurn EXCEPT !.code = 500]]
                  /\ UNCHANGED messages
        ELSE \* main.py 938-959: the failure is stored as the assistant's message
             /\ messages' = Append(messages, ErrorMessage(turn.conversation_id, reply.message))
             /\ chat' = [chat EXCEPT !.turn[s] = [IdleTurn EXCEPT !.code = 200]]

\* ragflow_client.py 100-114: what query_documents returns: the JSON body of
\* an HTTP 200, or an error with its reason
AnswerText == <<"a", "n", "s">>

QueryData ==
    {[mapping |-> FALSE, answer |-> Absent(<<>>), confidence_score |-> Absent(0),
      sources |-> Absent(<<>>), chunks |-> Absent(<<>>), references |-> Absent(<<>>)],
     [mapping |-> TRUE, answer |-> Ok(AnswerText), confidence_score |-> Ok(90),
      sources |-> Ok(<<BaseSource,
                       [BaseSource EXCEPT !.document_id = Ok("x")],
                       [BaseSource EXCEPT !.document_id = Absent("")],
                       [BaseSource EXCEPT !.document_id = Ok("r2")]>>),
      chunks |-> Absent(<<>>), references |-> Absent(<<>>)],
     [mapping |-> TRUE, answer |-> Absent(<<>>), confidence_score |-> Absent(0),
      sources |-> Absent(<<>>), chunks |-> Ok(<<BaseChunk>>), references |-> Absent(<<>>)]}

QueryFailures == {<<"Query failed: HTTP 500">>, <<"timed out">>}

QueryReplies ==
    {[status |-> "success", data |-> d, message |-> <<>>] : d \in QueryData}
    \cup {[status |-> "error", data |-> CHOOSE d \in QueryData : ~d.mapping, message |-> m] :
            m \in QueryFailures}

\* the requests made of send_message
Questions ==
    {Text("q", 3), <<" ", "w", "h", "y", NUL, "?", "\n">>, <<" ", "h", "i", " ">>, <<" ", "\n">>, <<>>,
     <<NUL, " ", "h", "i", "!">>}

ChatRequests ==
    {ChatRequest(q, ids) : q \in Questions, ids \in ConvRequests \cup {<<MalformedId>>, <<1, MalformedId>>}}

\* ------------------------------------------- the states a chat turn starts in
\* a document whose processing completed, registered as reference
Processed(reference) ==
    [processing_status |-> "completed", ragflow_document_id |-> Some(reference),
     page_count |-> Some(1), doc_metadata |-> Some("m1")]

StillProcessing(reference) ==
    [NewDocument EXCEPT !.processing_status = "processing",
                        !.ragflow_document_id = Some(reference)]

\* the i-th message of a conversation of earlier turns
Earlier(i) ==
    IF i % 2 = 1
    THEN UserMessage(1, Text("u", i + 2))
    ELSE [conversation_id |-> 1, role |-> "assistant", content |-> Text("v", i),
          citations |-> Some(<<>>), confidence_score |-> Some(0)]

History(n) == [i \in 1..n |-> Earlier(i)]

\* ---------------------------------------------------------- the uploaded file
\* An uploaded file as the handler sees it: the filename of the form part, a
\* sequence of characters; its content type, NULL when the part has no
\* Content-Type header; the size attribute of the UploadFile, NULL when the
\* installed framework gives none; and the number of bytes file.read() returns.
UploadFile(filename, content_type, size, length) ==
    [filename |-> filename, content_type |-> content_type, size |-> size, length |-> length]

NoFile == UploadFile(<<>>, NULL, NULL, 0)

\* no request has been answered yet
NotAnswered == [operation |-> "", id |-> 0, file |-> NoFile, code |-> 0, gateway |-> ""]

\* config.py 26: settings.max_file_size, main.py 81
MAX_FILE_SIZE == 50 * 1024 * 1024
\* main.py 208: the minimum size
min_file_size == 1024
\* main.py 169: the longest filename
max_filename_length == 255
\* main.py 82
ALLOWED_EXTENSIONS == {<<".", "p", "d", "f">>}

\* main.py 177: the characters of the class [<>:"/\\|?*\x00-\x1f]
InvalidChar(c) == c \in {"<", ">", ":", "\"", "/", "\\", "|", "?", "*", NUL, "\n", "\r", "\t"}

\* str.lower(), on the letters the filenames here are written with
LowerChar(c) == IF c = "P" THEN "p" ELSE IF c = "D" THEN "d" ELSE IF c = "F" THEN "f" ELSE c
Lower(text) == [i \in 1..Len(text) |-> LowerChar(text[i])]

\* PurePath.suffix of a name without a separator: from the last dot on, when
\* that dot is neither the first nor the last character
PathSuffix(name) ==
    LET dots == {i \in 1..Len(name) : name[i] = "."} IN
    IF dots = {} THEN <<>>
    ELSE LET i == Greatest(dots) IN
         IF 1 < i /\ i < Len(name) THEN SubSeq(name, i, Len(name)) ELSE <<>>

\* main.py 152-212: the status validate_pdf_file raises, 200 when it raises
\* none.  Every check of the name is made on the stripped name.
validate_pdf_file_code(file) ==
    IF file.filename = <<>> THEN 400
    ELSE LET filename == Strip(file.filename) IN
         IF filename = <<>> THEN 400
         ELSE IF Len(filename) > max_filename_length THEN 400
         ELSE IF \E i \in 1..Len(filename) : InvalidChar(filename[i]) THEN 400
         ELSE IF Lower(PathSuffix(filename)) \notin ALLOWED_EXTENSIONS THEN 400
         ELSE IF file.content_type \notin {NULL, Some(""), Some("application/pdf")} THEN 400
         ELSE IF file.size # NULL /\ file.size[1] > MAX_FILE_SIZE THEN 400
         ELSE IF file.size # NULL /\ file.size[1] < min_file_size THEN 400
         ELSE 200

\* main.py 360-377: the status upload_document raises before it creates the
\* record, 200 when it raises none; after reading the content only the
\* maximum is checked
upload_document_code(file) ==
    IF validate_pdf_file_code(file) # 200 THEN 400
    ELSE IF file.length > MAX_FILE_SIZE THEN 400
    ELSE 200

\* main.py 352-400: an upload arrives; it is answered 400, or its record is
\* created and the handler awaits the gateway registration
upload_document_begin(file, limit) ==
    /\ answered' = [operation |-> "upload_document", id |-> 0, file |-> file,
                    code |-> upload_document_code(file), gateway |-> ""]
    /\ IF upload_document_code(file) = 200
       THEN upload_document_create(limit)
       ELSE UNCHANGED lifecycle_vars

\* the uploads made
StemOf(n) == Text("a", n)
PdfSuffix == <<".", "p", "d", "f">>
LongestName == StemOf(max_filename_length - 4) \o PdfSuffix
UploadNames ==
    {<<"a">> \o PdfSuffix,
     <<"a", ".", "P", "D", "F">>,
     <<"a", ".", "t", "x", "t">>,
     <<"a">> \o PdfSuffix \o <<".", "t", "x", "t">>,
     <<"a">> \o PdfSuffix \o <<" ">>,
     <<"a">> \o PdfSuffix \o <<"\n">>,
     <<" ", "a">> \o PdfSuffix,
     <<"a", "/", "b">> \o PdfSuffix,
     <<"a", NUL, "b">> \o PdfSuffix,
     PdfSuffix,
     <<" ">>,
     <<>>,
     LongestName,
     <<"a">> \o LongestName,
     LongestName \o <<" ">>}

ContentTypes == {NULL, Some("application/pdf"), Some("text/plain")}

ContentLengths == {500, min_file_size, MAX_FILE_SIZE, MAX_FILE_SIZE + 1}

\* the size attribute, when there is one, is the number of bytes received
UploadFiles ==
    {UploadFile(name, type, IF known THEN Some(length) ELSE NULL, length) :
        name \in UploadNames, type \in ContentTypes,
        known \in BOOLEAN, length \in ContentLengths}

\* ------------------------------------------------------------- the lookups
\* an answer given without a gateway call, as answered records it
Answer(operation, id, code) ==
    [operation |-> operation, id |-> id, file |-> NoFile, code |-> code, gateway |-> ""]

get_document_code_Found(d) == 200

\* main.py 467-491: the row is looked up, 404 when there is none
get_document_code(d) == IF Exists(d) THEN 200 ELSE 404

\* main.py 467-491: the handler reads and writes nothing
get_document(d) ==
    /\ answered' = Answer("get_document", d, get_document_code(d))
    /\ UNCHANGED <<lifecycle_vars, chat_vars, reported, health>>

\* main.py 772-774
get_conversation_code(c) == IF c \in 1..Len(conversations) THEN 200 ELSE 404

\* main.py 768-805: the handler reads the conversation and its messages
get_conversation(c) ==
    /\ answered' = Answer("get_conversation", c, get_conversation_code(c))
    /\ UNCHANGED <<lifecycle_vars, chat_vars, reported, health>>

\* main.py 616-626: the status check, its answer recorded when it is given
\* without asking the gateway
get_document_status_arrives(d) ==
    /\ get_document_status_begin(d)
    /\ answered' = IF gs'[d].pc = "await" THEN answered
                   ELSE Answer("get_document_status", d, get_document_status_code(d))

\* main.py 563-585: the deletion, its answer recorded when it is given
\* without asking the gateway
delete_document_arrives(d) ==
    /\ delete_document_begin(d)
    /\ answered' = IF del'[d] = "await" THEN answered
                   ELSE Answer("delete_document", d, delete_document_code(d))

\* ragflow_client.py 134-153: what the HTTP request of
\* RAGFlowClient.delete_document comes to: a status code, or an exception
DeleteOutcomes == {"200", "404", "500", "exception"}

\* ragflow_client.py 144-153: the status of the result returned to the handler
delete_document_result(outcome) ==
    IF outcome \in {"200", "404"} THEN "success" ELSE "error"

\* main.py 585-614: the status the handler answers with after the gateway
\* call: the result is only logged (587-592), the row is deleted and the
\* handler returns
delete_document_reply_code(reply) == 200

\* main.py 585-614 with ragflow_client.py 134-153: the gateway call of a
\* deletion comes to outcome; the answer and the outcome are recorded
delete_document_returns(d, outcome) ==
    /\ delete_document_reply(d, delete_document_result(outcome))
    /\ answered' = [Answer("delete_document", d,
                            delete_document_reply_code(delete_document_result(outcome)))
                        EXCEPT !.gateway = outcome]

\* ---------------------------------------------------------------- the probes
\* ragflow_client.py 34-49: what the GET of the gateway's health endpoint comes
\* to: a status code (a 200 whose body is JSON or is not), or an exception
HealthOutcomes == {"200", "200 not JSON", "401", "500", "503", "timeout", "refused"}

\* ragflow_client.py 41-49: the status of the result of test_connection
test_connection(outcome) == IF outcome = "200" THEN "connected" ELSE "error"

\* what a probe finds: whether SELECT 1 succeeds; redis not configured
\* ("none"), answering the ping ("up") or not ("down"); the outcome of the
\* gateway's health request; whether the upload directory can be written
Probe(database, redis, gateway, filesystem) ==
    [asked |-> TRUE, database |-> database, redis |-> redis, gateway |-> gateway,
     filesystem |-> filesystem]

\* main.py 324-338: 200 when the database answers and test_connection reports
\* success, 503 otherwise (the HTTPException of 333 is caught at 336)
readiness_check_code(probe) ==
    IF ~probe.database THEN 503
    ELSE IF test_connection(probe.gateway) # "success" THEN 503
    ELSE 200

\* main.py 324-338
readiness_check(probe) ==
    /\ health' = [health EXCEPT !.ready = [probe |-> probe, code |-> readiness_check_code(probe)]]
    /\ UNCHANGED <<lifecycle_vars, chat_vars, citation_vars, answered, reported>>

\* main.py 240-274: the entries of checks
detailed_checks(probe) ==
    [database |-> IF probe.database THEN "healthy" ELSE "unhealthy",
     redis |-> IF probe.redis = "none" THEN "unavailable"
               ELSE IF probe.redis = "up" THEN "healthy" ELSE "unhealthy",
     ragflow |-> IF test_connection(probe.gateway) = "success" THEN "healthy" ELSE "unhealthy",
     filesystem |-> IF probe.filesystem THEN "healthy" ELSE "unhealthy"]

\* main.py 231-276: the overall status, assigned by each failing check in turn
detailed_status(probe) ==
    LET after_database == IF probe.database THEN "healthy" ELSE "unhealthy"
        after_redis == IF probe.redis = "down" THEN "degraded" ELSE after_database
        after_ragflow == IF test_connection(probe.gateway) = "success"
                         THEN after_redis ELSE "unhealthy"
    IN IF probe.filesystem THEN after_ragflow ELSE "unhealthy"

\* main.py 229-276
detailed_health_check(probe) ==
    /\ health' = [health EXCEPT !.detailed = [probe |-> probe,
                                              status |-> detailed_status(probe),
                                              checks |-> detailed_checks(probe)]]
    /\ UNCHANGED <<lifecycle_vars, chat_vars, citation_vars, answered, reported>>

\* the probes made: the readiness probe reads neither redis nor the upload
\* directory
ReadinessProbes ==
    {Probe(database, "none", gateway, TRUE) : database \in BOOLEAN, gateway \in HealthOutcomes}
DetailedProbes ==
    {Probe(database, redis, gateway, filesystem) :
        database \in BOOLEAN, redis \in {"none", "up", "down"},
        gateway \in HealthOutcomes, filesystem \in BOOLEAN}

\* ------------------------------------------------------------ specification
Init == LifecycleInit /\ ChatIdle /\ NormalizerIdle /\ answered = NotAnswered /\ reported = NotReported /\ health = NotProbed

upload_document_request ==
    /\ upload_document_create(MaxDocs)
    /\ UNCHANGED <<chat_vars, citation_vars, answered, reported, health>>
upload_document_resume ==
    /\ \E d \in DocIds, reply \in RegisterReplies : upload_document_registered(d, reply)
    /\ UNCHANGED <<chat_vars, citation_vars, answered, reported, health>>
poll_iterate ==
    /\ \E d \in DocIds : poll_document_status_iterate(d, AttemptCap)
    /\ UNCHANGED <<chat_vars, citation_vars, answered, reported, health>>
poll_reply ==
    /\ \E d \in DocIds, reply \in StatusReplies : poll_document_status_reply(d, reply, AttemptCap)
    /\ UNCHANGED <<chat_vars, citation_vars, answered, reported, health>>
get_document_status_request ==
    /\ \E d \in DocIds : get_document_status_begin(d)
    /\ UNCHANGED <<chat_vars, citation_vars, answered, reported, health>>
get_document_status_resume ==
    /\ \E d \in DocIds, reply \in StatusReplies : get_document_status_reply(d, reply)
    /\ UNCHANGED <<chat_vars, citation_vars, answered, reported, health>>
poll_processing_documents_request ==
    /\ poll_processing_documents_begin
    /\ UNCHANGED <<chat_vars, citation_vars, answered, reported, health>>
poll_processing_documents_resume ==
    /\ \E reply \in StatusReplies : poll_processing_documents_reply(reply)
    /\ UNCHANGED <<chat_vars, citation_vars, answered, reported, health>>
delete_document_request ==
    /\ \E d \in DocIds : delete_document_begin(d)
    /\ UNCHANGED <<chat_vars, citation_vars, answered, reported, health>>
delete_document_resume ==
    /\ \E d \in DocIds, reply \in DeleteReplies : delete_document_reply(d, reply)
    /\ UNCHANGED <<chat_vars, citation_vars, answered, reported, health>>
create_conversation_request ==
    /\ \E ids \in ConvRequests : create_conversation(ids)
    /\ UNCHANGED <<chat_vars, citation_vars, answered, reported, health>>

Next ==
    \/ upload_document_request
    \/ upload_document_resume
    \/ poll_iterate
    \/ poll_reply
    \/ get_document_status_request
    \/ get_document_status_resume
    \/ poll_processing_documents_request
    \/ poll_processing_documents_resume
    \/ delete_document_request
    \/ delete_document_resume
    \/ create_conversation_request

Spec == Init /\ [][Next]_vars

\* the poll budget: one upload per document, its poll task with the whole
\* attempt budget, and on-demand status checks
budget_upload_request ==
    /\ upload_document_create(BudgetDocs)
    /\ UNCHANGED <<chat_vars, citation_vars, answered, reported, health>>
budget_upload_resume ==
    /\ \E d \in DocIds, reply \in RegisterReplies : upload_document_registered(d, reply)
    /\ UNCHANGED <<chat_vars, citation_vars, answered, reported, health>>
budget_poll_iterate ==
    /\ \E d \in DocIds : poll_document_status_iterate(d, max_attempts + 1)
    /\ UNCHANGED <<chat_vars, citation_vars, answered, reported, health>>
budget_poll_reply ==
    /\ \E d \in DocIds, reply \in StatusReplies : poll_document_status_reply(d, reply, max_attempts + 1)
    /\ UNCHANGED <<chat_vars, citation_vars, answered, reported, health>>
budget_status_request ==
    /\ \E d \in DocIds : get_document_status_begin(d)
    /\ UNCHANGED <<chat_vars, citation_vars, answered, reported, health>>
budget_status_resume ==
    /\ \E d \in DocIds, reply \in StatusReplies : get_document_status_reply(d, reply)
    /\ UNCHANGED <<chat_vars, citation_vars, answered, reported, health>>

NextBudget ==
    \/ budget_upload_request
    \/ budget_upload_resume
    \/ budget_poll_iterate
    \/ budget_poll_reply
    \/ budget_status_request
    \/ budget_status_resume

SpecBudget == Init /\ [][NextBudget]_vars

\* the poll task of document d runs: the event loop resumes it when its sleep
\* of 10 seconds (main.py 553) is over and when its gateway call, which has a
\* timeout of 10 seconds (ragflow_client.py 123), has returned
poll_task(d) ==
    /\ \/ poll_document_status_iterate(d, max_attempts + 1)
       \/ \E reply \in StatusReplies : poll_document_status_reply(d, reply, max_attempts + 1)
    /\ UNCHANGED <<chat_vars, citation_vars, answered, reported, health>>

SpecPolling == SpecBudget /\ \A d \in DocIds : WF_vars(poll_task(d))

\* the chat turn: the documents are processed, a conversation on document 1
\* has a history of earlier turns, and send_message requests arrive
chat_request ==
    /\ \E s \in ChatSlots, conversation_id \in ConvIds \cup {GhostConv}, request \in ChatRequests :
            send_message_begin(s, conversation_id, request)
    /\ UNCHANGED <<lifecycle_vars, citation_vars, answered, reported, health>>

chat_resume ==
    /\ \E s \in ChatSlots, reply \in QueryReplies : send_message_reply(s, reply)
    /\ UNCHANGED <<lifecycle_vars, citation_vars, answered, reported, health>>

ChatDocuments ==
    {table \in [DocIds -> {Processed("r1"), Processed("r2"), StillProcessing("r2")}] :
        table[1] = Processed("r1")}

\* what is stored when the chat turns start
ChatStore ==
    /\ documents \in ChatDocuments
    /\ created = MaxDocs
    /\ conversations = <<[document_ids |-> <<1>>]>>
    /\ up = [d \in DocIds |-> "success"]
    /\ poll = [d \in DocIds |->
                IF documents[d].processing_status = "completed"
                THEN Finished(IdlePoll, "terminal") ELSE [IdlePoll EXCEPT !.pc = "loop"]]
    /\ gs = [d \in DocIds |-> IdleCheck]
    /\ del = [d \in DocIds |-> "idle"]
    /\ batch = IdleBatch
    /\ applied = [d \in DocIds |->
                    IF documents[d].processing_status = "completed"
                    THEN {[status |-> "completed", page_count |-> Some(1), metadata |-> Some("m1")]}
                    ELSE {}]
    /\ writers = [d \in DocIds |->
                    IF documents[d].processing_status = "completed" THEN {"poll"} ELSE {}]
    /\ messages \in {History(n) : n \in 0..MaxPrior}
    /\ NormalizerIdle
    /\ answered = NotAnswered
    /\ reported = NotReported
    /\ health = NotProbed

ChatInit ==
    /\ ChatStore
    /\ chat = [started |-> 0, turn |-> [s \in ChatSlots |-> IdleTurn]]

NextChat ==
    \/ chat_request
    \/ chat_resume

SpecChat == ChatInit /\ [][NextChat]_vars

\* the citation functions: a response of the gateway is given to
\* extract_citations, and the list it returns to format_citations_for_storage
normalizer_extract == extract_citations_call /\ UNCHANGED <<lifecycle_vars, chat_vars, answered, reported, health>>
normalizer_format == format_citations_for_storage_call /\ UNCHANGED <<lifecycle_vars, chat_vars, answered, reported, health>>

CitationsInit ==
    /\ LifecycleInit
    /\ ChatIdle
    /\ normalizer = "input"
    /\ ragflow_response \in Responses
    /\ citations = Returns(<<>>)
    /\ citations_for_storage = <<>>
    /\ answered = NotAnswered
    /\ reported = NotReported
    /\ health = NotProbed

NextCitations ==
    \/ normalizer_extract
    \/ normalizer_format

SpecCitations == CitationsInit /\ [][NextCitations]_vars

\* the uploads: files of every kind arrive, the accepted ones are registered
upload_arrives ==
    /\ \E file \in UploadFiles : upload_document_begin(file, MaxUploads)
    /\ UNCHANGED <<chat_vars, citation_vars, reported, health>>
upload_registered ==
    /\ \E d \in DocIds, reply \in RegisterReplies : upload_document_registered(d, reply)
    /\ UNCHANGED <<chat_vars, citation_vars, answered, reported, health>>

NextUpload ==
    \/ upload_arrives
    \/ upload_registered

SpecUpload == Init /\ [][NextUpload]_vars

\* the lookups: document 1 is processed and the others are processing, a
\* conversation on document 1 has two messages; documents and conversations are read, checked and deleted
\* by ids that name a row and by ids that name none, and messages are posted
lookup_get_document ==
    /\ \E d \in DocIds \cup {GhostId} : get_document(d)
    /\ UNCHANGED citation_vars
lookup_get_conversation ==
    /\ \E c \in ConvIds \cup {GhostConv} : get_conversation(c)
    /\ UNCHANGED citation_vars
lookup_status_request ==
    /\ \E d \in DocIds : get_document_status_arrives(d)
    /\ UNCHANGED <<chat_vars, citation_vars, reported, health>>
lookup_status_resume ==
    /\ \E d \in DocIds, reply \in StatusReplies : get_document_status_reply(d, reply)
    /\ UNCHANGED <<chat_vars, citation_vars, answered, reported, health>>
lookup_delete_request ==
    /\ \E d \in DocIds : delete_document_arrives(d)
    /\ UNCHANGED <<chat_vars, citation_vars, reported, health>>
lookup_delete_resume ==
    /\ \E d \in DocIds, outcome \in DeleteOutcomes : delete_document_returns(d, outcome)
    /\ UNCHANGED <<chat_vars, citation_vars, reported, health>>

\* the messages posted: a question that is valid and one that is too short,
\* about the document of the conversation, about no document, about none
LookupRequests ==
    {ChatRequest(q, ids) : q \in {Text("q", 3), <<" ", "h", "i", " ">>},
                           ids \in {<<1>>, <<GhostId>>, <<>>}}

lookup_send_message ==
    /\ \E s \in ChatSlots, conversation_id \in ConvIds \cup {GhostConv}, request \in LookupRequests :
            send_message_begin(s, conversation_id, request)
    /\ UNCHANGED <<lifecycle_vars, citation_vars, answered, reported, health>>

LookupInit ==
    /\ ChatInit
    /\ \A d \in DocIds \ {1} : documents[d] = StillProcessing("r2")
    /\ messages = History(2)

NextLookup ==
    \/ lookup_get_document
    \/ lookup_get_conversation
    \/ lookup_status_request
    \/ lookup_status_resume
    \/ lookup_delete_request
    \/ lookup_delete_resume
    \/ lookup_send_message
    \/ chat_resume

SpecLookup == LookupInit /\ [][NextLookup]_vars

\* the reconciliation: documents are uploaded, polled, checked on demand,
\* reconciled in batches and deleted; the gateway reports a document as
\* processing until it settles on a terminal status for it, which it
\* reports from then on
TerminalData == {sd \in StatusData : sd.status \in {"completed", "failed"}}

\* ragflow_client.py 116-132: what a status call about document d returns:
\* while the gateway is processing the document, that it is processing or an
\* error; the settled data afterwards
Reports(d) ==
    IF reported[d] = NULL
    THEN {reply \in StatusReplies : reply.data.status \notin {"completed", "failed"}}
    ELSE {[status |-> "success", data |-> reported[d][1]]}

\* the gateway finishes processing the document registered as d: from this
\* step on it reports the same terminal data for it
gateway_settles(d) ==
    /\ reported[d] = NULL
    /\ Exists(d)
    /\ NeedsGateway(documents[d])
    /\ \E sd \in TerminalData : reported' = [reported EXCEPT ![d] = Some(sd)]
    /\ UNCHANGED <<lifecycle_vars, chat_vars, citation_vars, answered, health>>

reconcile_poll_iterate ==
    /\ \E d \in DocIds : poll_document_status_iterate(d, max_attempts + 1)
    /\ UNCHANGED <<chat_vars, citation_vars, answered, reported, health>>
reconcile_poll_reply ==
    /\ \E d \in DocIds : \E reply \in Reports(d) :
            poll_document_status_reply(d, reply, max_attempts + 1)
    /\ UNCHANGED <<chat_vars, citation_vars, answered, reported, health>>
reconcile_status_request(d) ==
    /\ get_document_status_begin(d)
    /\ UNCHANGED <<chat_vars, citation_vars, answered, reported, health>>
reconcile_status_resume(d) ==
    /\ \E reply \in Reports(d) : get_document_status_reply(d, reply)
    /\ UNCHANGED <<chat_vars, citation_vars, answered, reported, health>>
reconcile_batch_request ==
    /\ poll_processing_documents_begin
    /\ UNCHANGED <<chat_vars, citation_vars, answered, reported, health>>
reconcile_batch_resume ==
    /\ batch.pc = "await"
    /\ \E reply \in Reports(batch.cur) : poll_processing_documents_reply(reply)
    /\ UNCHANGED <<chat_vars, citation_vars, answered, reported, health>>
reconcile_delete_request ==
    /\ \E d \in DocIds : delete_document_begin(d)
    /\ UNCHANGED <<chat_vars, citation_vars, answered, reported, health>>
reconcile_delete_resume ==
    /\ \E d \in DocIds, reply \in DeleteReplies : delete_document_reply(d, reply)
    /\ UNCHANGED <<chat_vars, citation_vars, answered, reported, health>>

\* a poll task that found its document processing 59 times, and one that has
\* spent its budget
LastAttempt ==
    [IdlePoll EXCEPT !.pc = "loop", !.attempt = max_attempts - 1, !.calls = max_attempts - 1]
Exhausted ==
    [IdlePoll EXCEPT !.pc = "done", !.attempt = max_attempts, !.calls = max_attempts,
                     !.reason = "exhausted"]

\* the documents were registered and are processing; the poll task of each is
\* in its last attempt or has ended on its budget
ReconcileInit ==
    /\ documents = [d \in DocIds |-> StillProcessing("r")]
    /\ created = MaxDocs
    /\ conversations = <<>>
    /\ up = [d \in DocIds |-> "success"]
    /\ poll \in [DocIds -> {LastAttempt, Exhausted}]
    /\ gs = [d \in DocIds |-> IdleCheck]
    /\ del = [d \in DocIds |-> "idle"]
    /\ batch = IdleBatch
    /\ applied = [d \in DocIds |-> {}]
    /\ writers = [d \in DocIds |-> {}]
    /\ ChatIdle
    /\ NormalizerIdle
    /\ answered = NotAnswered
    /\ reported = NotReported
    /\ health = NotProbed

NextReconcile ==
    \/ reconcile_poll_iterate
    \/ reconcile_poll_reply
    \/ \E d \in DocIds : reconcile_status_request(d)
    \/ \E d \in DocIds : reconcile_status_resume(d)
    \/ reconcile_batch_request
    \/ reconcile_batch_resume
    \/ reconcile_delete_request
    \/ reconcile_delete_resume
    \/ \E d \in DocIds : gateway_settles(d)

SpecReconcile == ReconcileInit /\ [][NextReconcile]_vars

\* Every gateway call of a request returns: it has a timeout of 10 seconds
\* and its exceptions are returned as an error (ragflow_client.py 116-153).
\* For every document, status checks of it or batch reconciliations keep
\* being requested.  Nothing is assumed of the poll tasks.
SpecReconciling ==
    /\ SpecReconcile
    /\ WF_vars(reconcile_delete_resume)
    /\ \A d \in DocIds : WF_vars(reconcile_status_resume(d))
    /\ WF_vars(reconcile_batch_resume)
    /\ \A d \in DocIds : SF_vars(reconcile_status_request(d)) \/ SF_vars(reconcile_batch_request)

\* interleaved chat turns: several send_message requests on the conversation
\* are in flight at once, each suspended at its gateway query
InterleavedSlots == 1..MaxInterleaved

interleave_request ==
    /\ \E s \in InterleavedSlots, request \in LookupRequests :
            send_message_begin(s, 1, request)
    /\ UNCHANGED <<lifecycle_vars, citation_vars, answered, reported, health>>
interleave_resume ==
    /\ \E s \in InterleavedSlots, reply \in QueryReplies : send_message_reply(s, reply)
    /\ UNCHANGED <<lifecycle_vars, citation_vars, answered, reported, health>>

InterleaveInit ==
    /\ ChatStore
    /\ messages \in {History(0), History(2)}
    /\ chat = [started |-> 0, turn |-> [s \in InterleavedSlots |-> IdleTurn]]

NextInterleave ==
    \/ interleave_request
    \/ interleave_resume

SpecInterleave == InterleaveInit /\ [][NextInterleave]_vars

\* deletions racing with the writers: poll tasks, status checks, batch
\* reconciliations and deletions are suspended at their gateway calls, each
\* having read its documents; answered records the call that returned last
\* for a document that was deleted
Resumed(operation, d, reply) ==
    IF Exists(d) THEN answered
    ELSE [NotAnswered EXCEPT !.operation = operation, !.id = d, !.gateway = reply.data.status]

\* what the gateway answers in the race: each status, and an error
RaceReplies ==
    {reply \in StatusReplies : reply.data.page_count = NULL /\ reply.data.metadata = NULL}

race_poll_iterate ==
    /\ \E d \in DocIds : poll_document_status_iterate(d, AttemptCap)
    /\ UNCHANGED <<chat_vars, citation_vars, answered, reported, health>>
race_poll_resume ==
    /\ \E d \in DocIds, reply \in RaceReplies :
            /\ poll_document_status_reply(d, reply, AttemptCap)
            /\ answered' = Resumed("poll_document_status", d, reply)
    /\ UNCHANGED <<chat_vars, citation_vars, reported, health>>
race_status_resume ==
    /\ \E d \in DocIds, reply \in RaceReplies :
            /\ get_document_status_reply(d, reply)
            /\ answered' = Resumed("get_document_status", d, reply)
    /\ UNCHANGED <<chat_vars, citation_vars, reported, health>>
race_batch_resume ==
    /\ \E reply \in RaceReplies :
            /\ poll_processing_documents_reply(reply)
            /\ answered' = Resumed("poll_processing_documents", batch.cur, reply)
    /\ UNCHANGED <<chat_vars, citation_vars, reported, health>>

\* the batch reconciliations suspended at their first gateway call
BatchesAwaiting ==
    LET snap == [d \in ProcessingDocs |-> documents[d]] IN
    {[pc |-> "await", cur |-> first, todo |-> BatchAsks(snap) \ {first}, snap |-> snap, reply |-> <<>>] :
        first \in BatchAsks(snap)}

RaceInit ==
    /\ documents = [d \in DocIds |-> StillProcessing("r")]
    /\ created = MaxDocs
    /\ conversations = <<>>
    /\ up = [d \in DocIds |-> "success"]
    /\ poll = [d \in DocIds |-> [IdlePoll EXCEPT !.pc = "await", !.calls = 1,
                                                   !.snap = StillProcessing("r")]]
    /\ gs = [d \in DocIds |-> [pc |-> "await", snap |-> StillProcessing("r"), late |-> FALSE]]
    /\ del = [d \in DocIds |-> IF d = 1 THEN "await" ELSE "idle"]
    /\ batch \in BatchesAwaiting
    /\ applied = [d \in DocIds |-> {}]
    /\ writers = [d \in DocIds |-> {}]
    /\ ChatIdle
    /\ NormalizerIdle
    /\ answered = NotAnswered
    /\ reported = NotReported
    /\ health = NotProbed

NextRace ==
    \/ race_poll_iterate
    \/ race_poll_resume
    \/ get_document_status_request
    \/ race_status_resume
    \/ poll_processing_documents_request
    \/ race_batch_resume
    \/ delete_document_request
    \/ delete_document_resume

SpecRace == RaceInit /\ [][NextRace]_vars

\* quick chats: requests without conversation id arrive at quick_chat, and
\* requests with the id of a conversation at send_message
quick_chat_request ==
    /\ \E s \in ChatSlots, request \in LookupRequests : quick_chat_begin(s, request)
    /\ UNCHANGED <<citation_vars, answered, reported, health>>
quick_chat_resume ==
    /\ \E s \in ChatSlots, reply \in QueryReplies : send_message_reply(s, reply)
    /\ UNCHANGED <<lifecycle_vars, citation_vars, answered, reported, health>>
quick_chat_with_id ==
    /\ \E s \in ChatSlots, conversation_id \in 1..(MaxConvs + MaxQuick), request \in LookupRequests :
            send_message_begin(s, conversation_id, request)
    /\ UNCHANGED <<lifecycle_vars, citation_vars, answered, reported, health>>

NextQuick ==
    \/ quick_chat_request
    \/ quick_chat_resume
    \/ quick_chat_with_id

SpecQuick == LookupInit /\ [][NextQuick]_vars

\* the probes: readiness probes and detailed health checks are made of a
\* service whose database, redis, gateway and upload directory are up or down
probe_ready == \E probe \in ReadinessProbes : readiness_check(probe)
probe_detailed == \E probe \in DetailedProbes : detailed_health_check(probe)

NextHealth ==
    \/ probe_ready
    \/ probe_detailed

SpecHealth == Init /\ [][NextHealth]_vars

\* ------------------------------------------------------------------ claims
Terminal == {"completed", "failed"}
StatusOf(table, d) == table[d].processing_status
Stays(d) == d \in DOMAIN documents /\ d \in DOMAIN documents'

\* C1: once a document is completed or failed, no step of the poll loop, the
\* on-demand check or the batch reconciliation changes its status.
C1_TerminalIsFinal ==
    [][\A d \in DocIds :
        (Stays(d) /\ StatusOf(documents, d) \in Terminal)
            => StatusOf(documents', d) = StatusOf(documents, d)]_vars

\* C2: a document goes from pending to processing only in the step in which
\* the registration returned success, and that step schedules its poll task;
\* when the registration returned a failure the document goes from pending to
\* failed and no poll task is scheduled; a poll task is never scheduled
\* otherwise.
C2_RegistrationDecides ==
    [][\A d \in DocIds :
        /\ (Stays(d) /\ StatusOf(documents, d) = "pending"
                     /\ StatusOf(documents', d) = "processing")
            => (up[d] = "registering" /\ up'[d] = "success"
                /\ poll[d].pc = "none" /\ poll'[d].pc = "loop")
        /\ (up[d] = "registering" /\ up'[d] = "error")
            => (Stays(d) /\ StatusOf(documents, d) = "pending"
                /\ StatusOf(documents', d) = "failed" /\ poll'[d].pc = "none")
        /\ (poll[d].pc = "none" /\ poll'[d].pc # "none")
            => (up[d] = "registering" /\ up'[d] = "success")]_vars

C2_Witness ==
    \E d1, d2 \in DOMAIN documents :
        /\ up[d1] = "success" /\ poll[d1].pc # "none"
        /\ up[d2] = "error" /\ StatusOf(documents, d2) = "failed" /\ poll[d2].pc = "none"

\* C3: documents are created pending, and every status change is one of
\* pending->processing, pending->failed, processing->completed,
\* processing->failed.
LifecycleTransitions ==
    {<<"pending", "processing">>, <<"pending", "failed">>,
     <<"processing", "completed">>, <<"processing", "failed">>}

C3_OnlyLifecycleTransitions ==
    [][\A d \in DocIds :
        /\ (d \notin DOMAIN documents /\ d \in DOMAIN documents')
            => StatusOf(documents', d) = "pending"
        /\ (Stays(d) /\ StatusOf(documents', d) # StatusOf(documents, d))
            => <<StatusOf(documents, d), StatusOf(documents', d)>> \in LifecycleTransitions]_vars

\* C4: a document that is not completed has page_count and metadata unset.
C4_UnsetUntilCompleted ==
    \A d \in DOMAIN documents :
        StatusOf(documents, d) # "completed"
            => (documents[d].page_count = NULL /\ documents[d].doc_metadata = NULL)

\* C5: the external reference is null while the document is pending, is
\* written only by the step that moves the document out of pending, and is
\* never changed afterwards.
C5_ReferenceNullWhilePending ==
    \A d \in DOMAIN documents :
        StatusOf(documents, d) = "pending" => documents[d].ragflow_document_id = NULL

C5_ReferenceWrittenOnce ==
    [][\A d \in DocIds :
        (Stays(d) /\ documents'[d].ragflow_document_id # documents[d].ragflow_document_id)
            => (StatusOf(documents, d) = "pending" /\ StatusOf(documents', d) # "pending")]_vars

\* C5: both parts, the state invariant and the step property.
C5_ExternalReference == []C5_ReferenceNullWhilePending /\ C5_ReferenceWrittenOnce

C5_Witness ==
    \E d \in DOMAIN documents :
        /\ StatusOf(documents, d) = "completed"
        /\ documents[d].ragflow_document_id # NULL
        /\ Cardinality(writers[d]) > 1

\* C6: when every reconciliation that wrote a document received the same
\* terminal gateway status, the document is in the state one reconciliation
\* with that status leaves it in, however many of them wrote it.
ReconciledRow(reference, data) ==
    [processing_status |-> data.status,
     ragflow_document_id |-> reference,
     page_count |-> IF data.status = "completed" THEN data.page_count ELSE NULL,
     doc_metadata |-> IF data.status # "completed" THEN NULL
                      ELSE IF data.metadata = NULL THEN EmptyMap ELSE data.metadata]

C6_SameTerminalState ==
    \A d \in DOMAIN documents :
        \A data \in applied[d] :
            applied[d] = {data}
                => documents[d] = ReconciledRow(documents[d].ragflow_document_id, data)

C6_Witness ==
    \E d \in DOMAIN documents :
        /\ Cardinality(applied[d]) = 1
        /\ {"poll", "status"} \subseteq writers[d]
        /\ StatusOf(documents, d) = "completed"

\* C7: the poll loop that ends on its budget has consumed exactly 60 attempts
\* and its last step writes no document, so a document nothing else wrote is
\* still processing; an on-demand check arriving after that still asks the
\* gateway, and a terminal reply to it moves the document to that status.
C7_BudgetExhausted ==
    [][\A d \in DocIds :
        /\ (poll[d].pc # "done" /\ poll'[d].pc = "done" /\ poll'[d].reason = "exhausted")
            => /\ poll'[d].attempt = 60
               /\ documents' = documents
               /\ (writers[d] = {}) => StatusOf(documents', d) = "processing"
        /\ (/\ poll[d].reason = "exhausted"
            /\ get_document_status_begin(d)
            /\ Exists(d)
            /\ StatusOf(documents, d) = "processing"
            /\ documents[d].ragflow_document_id # NULL)
            => (gs'[d].pc = "await" /\ gs'[d].late)
        /\ \A reply \in StatusReplies :
            (/\ gs[d].late
             /\ get_document_status_reply(d, reply)
             /\ reply.status = "success"
             /\ reply.data.status \in Terminal
             /\ StatusOf(documents, d) = "processing")
            => StatusOf(documents', d) = reply.data.status]_vars

C7_Witness ==
    \E d \in DOMAIN documents :
        /\ poll[d].reason = "exhausted"
        /\ poll[d].attempt = 60
        /\ writers[d] = {"status_after_budget"}
        /\ StatusOf(documents, d) \in Terminal

C9_ReferencedDocumentsExist ==
    \A i \in 1..Len(conversations) :
        \A k \in 1..Len(conversations[i].document_ids) :
            conversations[i].document_ids[k] \in DOMAIN documents

\* C10: a conversation is created only for a request every id of which names
\* an existing completed document; every other request is answered 400 and
\* creates nothing.
AllCompleted(ids) ==
    \A k \in 1..Len(ids) :
        ids[k] \in DOMAIN documents /\ StatusOf(documents, ids[k]) = "completed"

C10_RejectedWith400 ==
    \A ids \in ConvRequests : ~AllCompleted(ids) => create_conversation_code(ids) = 400

C10_CreatedOnlyForCompleted ==
    [][conversations' # conversations
        => LET ids == conversations'[Len(conversations')].document_ids IN
            /\ conversations' = Append(conversations, [document_ids |-> ids])
            /\ AllCompleted(ids)
            /\ create_conversation_code(ids) = 200]_vars

\* C10: both parts, the answer to a request and the step that creates.
C10_OnlyCompletedDocuments == []C10_RejectedWith400 /\ C10_CreatedOnlyForCompleted

C10_Witness ==
    /\ Len(conversations) > 0
    /\ conversations[1].document_ids # <<>>
    /\ \E d \in DOMAIN documents : StatusOf(documents, d) # "completed"

\* ------------------------------------------------------- claims: chat turn
Awaiting == {s \in ChatSlots : chat.turn[s].pc = "await"}

\* the messages a conversation had when the turn arrived, oldest first
PriorMessages(turn) == SubSeq(InOrder(Of(turn.conversation_id)), 1, turn.prior)

\* the context block of a payload: empty when the payload has none
ContextBlock(payload) ==
    IF payload.conversation_context = NULL THEN <<>> ELSE payload.conversation_context[1]

\* the rendered lines of the last n of the messages msgs, joined
RenderedWindow(msgs, n) ==
    JoinLines([i \in 1..Len(Suffix(msgs, n)) |-> RenderedLine(ContextEntry(Suffix(msgs, n)[i]))])

\* C11: the context block of the query of a chat turn is the rendered lines
\* of the min(n, 10) most recent of the n messages the conversation had
\* before the turn, oldest first.
C11_ContextIsPriorWindow ==
    \A s \in Awaiting :
        ContextBlock(chat.turn[s].payload) = RenderedWindow(PriorMessages(chat.turn[s]), 10)

\* C12: in a turn of a conversation without prior messages the question sent
\* is the sanitized question and the payload has no conversation_context.
C12_FirstQuestionUnmodified ==
    \A s \in Awaiting :
        chat.turn[s].prior = 0
            => /\ chat.turn[s].payload.question = chat.turn[s].question
               /\ chat.turn[s].payload.conversation_context = NULL

\* ------------------------------------------- claims: citation normalizer
Extracted == normalizer \in {"extracted", "stored"}

\* the list extract_citations returned
Output == citations[1]

\* the first shape, in the order sources, chunks, references, whose value is
\* a non-empty list
PriorityShape(response) ==
    IF ~response.mapping THEN "none"
    ELSE IF Entries(response.sources) # <<>> THEN "sources"
    ELSE IF Entries(response.chunks) # <<>> THEN "chunks"
    ELSE IF Entries(response.references) # <<>> THEN "references"
    ELSE "none"

\* the conversions of the entries of that shape, and their source texts
PriorityOutcomes(response) ==
    CASE PriorityShape(response) = "sources" -> ConvertedSources(response.sources.v)
      [] PriorityShape(response) = "chunks" -> ConvertedChunks(response.chunks.v)
      [] PriorityShape(response) = "references" -> ConvertedReferences(response.references.v)
      [] OTHER -> <<>>

PriorityTexts(response) ==
    CASE PriorityShape(response) = "sources" ->
            [i \in 1..Len(response.sources.v) |-> DictGet(response.sources.v[i].text, <<>>)]
      [] PriorityShape(response) = "chunks" ->
            [i \in 1..Len(response.chunks.v) |-> DictGet(response.chunks.v[i].content, <<>>)]
      [] PriorityShape(response) = "references" ->
            [i \in 1..Len(response.references.v) |-> DictGet(response.references.v[i].excerpt, <<>>)]
      [] OTHER -> <<>>

\* the response with every shape but one taken out
Only(response, shape) ==
    [response EXCEPT !.sources = IF shape = "sources" THEN @ ELSE Absent(<<>>),
                     !.chunks = IF shape = "chunks" THEN @ ELSE Absent(<<>>),
                     !.references = IF shape = "references" THEN @ ELSE Absent(<<>>)]

\* C13: every citation returned is the conversion of an entry of the first
\* non-empty shape in the order sources, chunks, references, and the list
\* returned by an extraction in which nothing raises is the one returned for
\* the response with that shape alone.
C13_OneShapeByPriority ==
    Extracted =>
        /\ \A i \in 1..Len(Output) :
                \E k \in 1..Len(PriorityOutcomes(ragflow_response)) :
                    PriorityOutcomes(ragflow_response)[k] = Returns(Output[i])
        /\ ~ExtractionRaises(ragflow_response) =>
                citations = extract_citations(Only(ragflow_response, PriorityShape(ragflow_response)))

C13_Witness ==
    /\ Extracted
    /\ Entries(ragflow_response.sources) = <<>>
    /\ Entries(ragflow_response.chunks) # <<>>
    /\ Entries(ragflow_response.references) # <<>>
    /\ Output # <<>>

\* C14: the excerpt of every citation returned is the source text of its
\* entry when that text has at most 200 characters, and its first 200
\* characters followed by "..." when it has more.
C14_ExcerptTruncated ==
    Extracted =>
        \A i \in 1..Len(Output) :
            \E k \in 1..Len(PriorityOutcomes(ragflow_response)) :
                /\ PriorityOutcomes(ragflow_response)[k] = Returns(Output[i])
                /\ LET text == PriorityTexts(ragflow_response)[k].v IN
                    Output[i].text_excerpt =
                        IF Len(text) > 200 THEN SubSeq(text, 1, 200) \o <<".", ".", ".">> ELSE text

\* the (document id, page number) pairs of a citation list
Keys(list) == {<<list[i].document_id, list[i].page_number>> : i \in 1..Len(list)}

\* C15: the list returned has at most 5 entries and no two of them share
\* (document id, page number).
C15_AtMostFiveDistinct ==
    Extracted =>
        /\ Len(Output) <= 5
        /\ \A i, j \in 1..Len(Output) :
            (Output[i].document_id = Output[j].document_id
                /\ Output[i].page_number = Output[j].page_number) => i = j

C15_Witness ==
    /\ Extracted
    /\ Len(Output) = 5
    /\ Len(Entries(ragflow_response.sources)) > Cardinality(Keys(Values(AfterSources(ragflow_response))))
    /\ Cardinality(Keys(Values(AfterSources(ragflow_response)))) > 5

\* C16: extract_citations raises for no response; for a response that is not
\* a mapping and for a mapping with none of the three shapes it returns the
\* empty list.
C16_NeverRaises ==
    Extracted =>
        /\ citations # Raises
        /\ ~ragflow_response.mapping => citations = Returns(<<>>)
        /\ (/\ ragflow_response.mapping
            /\ ragflow_response.sources.kind = "absent"
            /\ ragflow_response.chunks.kind = "absent"
            /\ ragflow_response.references.kind = "absent") => citations = Returns(<<>>)

C16_Witness == Extracted /\ ~ragflow_response.mapping /\ citations = Returns(<<>>)

\* C17: for a response that is a mapping of lists of mappings, every entry
\* of the chosen shape gives a citation, a field that is absent, null or of
\* the wrong type being replaced by its default: nothing raises, and the list
\* returned is empty only when no shape has an entry.
ShapeOfMappings(shape) ==
    shape.kind # "null" /\ \A i \in 1..Len(shape.v) : shape.v[i].mapping

C17_MalformedFieldDefaults ==
    (/\ Extracted
     /\ ragflow_response.mapping
     /\ ShapeOfMappings(ragflow_response.sources)
     /\ ShapeOfMappings(ragflow_response.chunks)
     /\ ShapeOfMappings(ragflow_response.references)) =>
        /\ ~ExtractionRaises(ragflow_response)
        /\ PriorityShape(ragflow_response) # "none" => Output # <<>>

\* Citation(**mapping): the citation made of a stored mapping
FromOptional(value, filler) == IF value = NULL THEN Null(filler) ELSE Ok(value[1])
Reconstructed(mapping) ==
    Citation(Ok(mapping.document_id), Ok(mapping.page_number), Ok(mapping.text_excerpt),
             FromOptional(mapping.start_position, 0), FromOptional(mapping.end_position, 0),
             Ok(mapping.confidence))

CitationFields ==
    {"document_id", "page_number", "text_excerpt", "start_position", "end_position", "confidence"}

\* C18: the stored list has the length and order of the citation list, every
\* mapping has the six fields of its citation with the same values, and the
\* citation list is reconstructed from the stored list.
C18_StorageLossless ==
    normalizer = "stored" =>
        /\ Len(citations_for_storage) = Len(Output)
        /\ \A i \in 1..Len(Output) :
            /\ DOMAIN citations_for_storage[i] = CitationFields
            /\ \A f \in CitationFields : citations_for_storage[i][f] = Output[i][f]
            /\ Reconstructed(citations_for_storage[i]) = Returns(Output[i])

C18_Witness ==
    /\ normalizer = "stored"
    /\ Len(citations_for_storage) > 1
    /\ \E i \in 1..Len(Output) : Output[i].start_position # NULL
    /\ \E i \in 1..Len(Output) : Output[i].start_position = NULL

\* ------------------------------------------------- claims: stored messages
StoredCitationFields ==
    {"document_id", "document_filename", "page_number", "text_excerpt", "confidence"}

\* the local ids, as stored, of the documents a turn queried
QueriedIds(turn) == {str(turn.documents[k].id) : k \in 1..Len(turn.documents)}

\* C19: every citation stored on the assistant message of a chat turn has the
\* fields document_id, document_filename, page_number, text_excerpt and
\* confidence, and its document_id is the local id of a queried document.
C19_StoredCitationsAreLocal ==
    [][\A s \in Awaiting :
        (chat'.turn[s].pc = "idle" /\ Len(messages') = Len(messages) + 1
            /\ messages'[Len(messages')].citations # NULL)
        => LET stored == messages'[Len(messages')].citations[1] IN
            \A i \in 1..Len(stored) :
                /\ StoredCitationFields \subseteq DOMAIN stored[i]
                /\ stored[i].document_id \in QueriedIds(chat.turn[s])]_vars

EndsWith(text, end) ==
    Len(text) >= Len(end) /\ SubSeq(text, Len(text) - Len(end) + 1, Len(text)) = end

\* the user message of a turn is the first message its conversation received
\* after the turn arrived
UserMessageStored(turn) ==
    /\ Len(InOrder(Of(turn.conversation_id))) > turn.prior
    /\ InOrder(Of(turn.conversation_id))[turn.prior + 1]
            = UserMessage(turn.conversation_id, turn.question)

\* C20: the step in which the query of a chat turn returns a failure finds the
\* user message of the turn stored, appends exactly one message, an assistant
\* message of the conversation whose content ends with the failure reason,
\* and answers 200.
C20_FailureIsAnswered ==
    [][\A s \in ChatSlots, reply \in QueryReplies :
        (send_message_reply(s, reply) /\ reply.status # "success")
        => /\ UserMessageStored(chat.turn[s])
           /\ Len(messages') = Len(messages) + 1
           /\ SubSeq(messages', 1, Len(messages)) = messages
           /\ messages'[Len(messages')].role = "assistant"
           /\ messages'[Len(messages')].conversation_id = chat.turn[s].conversation_id
           /\ EndsWith(messages'[Len(messages')].content, reply.message)
           /\ chat'.turn[s].code = 200]_vars

C20_Witness ==
    /\ Len(messages) > 1
    /\ messages[Len(messages)].role = "assistant"
    /\ \E m \in QueryFailures : EndsWith(messages[Len(messages)].content, m)
    /\ messages[Len(messages) - 1].role = "user"
    /\ \E s \in ChatSlots : chat.turn[s].pc = "idle" /\ chat.turn[s].code = 200

\* C21: upload_document answers with a client error, and creates no Document
\* record, every upload whose filename does not end in .pdf (in either case
\* of the letters), whose content type is not application/pdf, whose filename
\* is longer than 255 characters or contains a control or path-special
\* character, or whose content is smaller than 1024 bytes or larger than the
\* configured maximum.
ToBeRejected(file) ==
    \/ ~EndsWith(Lower(file.filename), PdfSuffix)
    \/ file.content_type # Some("application/pdf")
    \/ Len(file.filename) > max_filename_length
    \/ \E i \in 1..Len(file.filename) : InvalidChar(file.filename[i])
    \/ file.length < min_file_size
    \/ file.length > MAX_FILE_SIZE

C21_InvalidUploadRejected ==
    [][(answered' # answered /\ answered'.operation = "upload_document"
            /\ ToBeRejected(answered'.file))
        => (answered'.code \in 400..499 /\ documents' = documents)]_vars

\* C22: send_message answers 400, whatever the conversation id, stores no
\* message and does not call the gateway, for every request whose question
\* is empty or shorter than 3 characters after sanitization, or whose
\* document_ids is empty or holds an id that is not a well-formed UUID.
InvalidChatRequest(request) ==
    \/ Len(sanitize_user_input(request.question)) < 3
    \/ request.document_ids = <<>>
    \/ \E k \in 1..Len(request.document_ids) : ~WellFormed(request.document_ids[k])

ValidationDetails ==
    {"Question cannot be empty.", "Question must be at least 3 characters long.",
     "At least one document ID must be provided.", "Invalid document ID format"}

\* every invalid request is answered 400 by the validation, on an existing
\* conversation and on one that does not exist
C22_RejectedByValidation ==
    \A conversation_id \in ConvIds \cup {GhostConv}, request \in ChatRequests :
        InvalidChatRequest(request)
            => /\ send_message_code(conversation_id, request) = 400
               /\ send_message_detail(conversation_id, request) \in ValidationDetails

\* the step that answers with a detail of the validation stores nothing and
\* leaves the turn idle; a step that stores a message or calls the gateway
\* stores a question of at least 3 characters and asks about a non-empty list
\* of well-formed ids
C22_NothingFromInvalid ==
    [][\A s \in ChatSlots :
        /\ (chat'.turn[s] # chat.turn[s] /\ chat'.turn[s].detail \in ValidationDetails)
            => (chat'.turn[s].code = 400 /\ chat'.turn[s].pc = "idle"
                /\ messages' = messages /\ chat'.started = chat.started)
        /\ (chat.turn[s].pc = "idle" /\ chat'.started # chat.started)
            => (/\ messages' = Append(messages, messages'[Len(messages')])
                /\ messages'[Len(messages')].role = "user"
                /\ Len(messages'[Len(messages')].content) >= 3)
        /\ (chat.turn[s].pc = "idle" /\ chat'.turn[s].pc = "await")
            => (/\ chat'.turn[s].documents # <<>>
                /\ \A k \in 1..Len(chat'.turn[s].documents) :
                        WellFormed(chat'.turn[s].documents[k].id))]_vars

NothingStoredChanges ==
    documents' = documents /\ conversations' = conversations /\ messages' = messages

C23_ValidMessageTo404 ==
    \A request \in LookupRequests :
        validate_chat_request_code(request) = 200
            => /\ send_message_code(GhostConv, request) = 404
               /\ send_message_detail(GhostConv, request) = "Conversation not found"

C23_NotFoundChangesNothing ==
    [][/\ (/\ answered' # answered
           /\ answered'.operation \in {"get_document", "get_document_status", "delete_document"}
           /\ answered'.id \notin DOMAIN documents)
            => (answered'.code = 404 /\ NothingStoredChanges)
       /\ (/\ answered' # answered
           /\ answered'.operation = "get_conversation"
           /\ answered'.id \notin 1..Len(conversations))
            => (answered'.code = 404 /\ NothingStoredChanges)
       /\ \A s \in ChatSlots :
            (chat'.turn[s] # chat.turn[s] /\ chat'.turn[s].detail = "Conversation not found")
                => (chat'.turn[s].code = 404 /\ chat'.turn[s].pc = "idle" /\ NothingStoredChanges)]_vars

C24_StopsWithoutCallOrWrite ==
    [][\A d \in DocIds :
        (/\ poll[d].pc = "loop"
         /\ poll'[d] # poll[d]
         /\ (~Exists(d) \/ StatusOf(documents, d) # "processing"))
            => /\ poll'[d].pc = "done"
               /\ poll'[d].reason = (IF Exists(d) THEN "not_processing" ELSE "not_found")
               /\ poll'[d].attempt = poll[d].attempt
               /\ documents' = documents]_vars

\* one loop ended on a deleted document, another on a document a status
\* check had moved out of processing
C24_Witness ==
    \E d1, d2 \in DocIds :
        /\ poll[d1].pc = "done" /\ poll[d1].reason = "not_found"
        /\ poll[d2].pc = "done" /\ poll[d2].reason = "not_processing"

\* C25: the step in which the gateway status call of a poll iteration returns
\* a failure, or a status that is neither completed nor failed, writes no
\* document and consumes exactly one attempt; the loop goes on with its next
\* iteration, while the budget of 60 has attempts left.
NotTerminal(reply) == reply.status # "success" \/ reply.data.status \notin Terminal

C25_NonTerminalReplyContinues ==
    [][\A d \in DocIds, reply \in StatusReplies :
        (NotTerminal(reply) /\ poll_document_status_reply(d, reply, max_attempts + 1))
            => /\ documents' = documents
               /\ poll'[d].attempt = poll[d].attempt + 1
               /\ poll'[d].pc = (IF poll'[d].attempt < max_attempts THEN "loop" ELSE "done")
               /\ poll'[d].reason = (IF poll'[d].attempt < max_attempts THEN "" ELSE "exhausted")]_vars

\* a loop that has consumed attempts goes on, its document still processing
C25_Witness ==
    \E d \in DOMAIN documents :
        /\ poll[d].pc = "loop"
        /\ poll[d].attempt = max_attempts - 1
        /\ StatusOf(documents, d) = "processing"
        /\ writers[d] = {}

\* C26: a poll loop that has ended has ended for one of four reasons: its
\* document was not found at the top of an iteration, the document was no
\* longer processing there, a terminal status was received and written, or
\* the budget of 60 attempts was exhausted.
C26_OnlyFourReasons ==
    \A d \in DocIds :
        poll[d].pc = "done"
            => poll[d].reason \in {"not_found", "not_processing", "terminal", "exhausted"}

\* C27: every poll task that has been started ends, and it has made at most
\* 60 status calls to the gateway when it does.
C27_AtMost60Calls == \A d \in DocIds : poll[d].calls <= max_attempts

C27_LoopEnds == \A d \in DocIds : (poll[d].pc \in {"loop", "await"}) ~> (poll[d].pc = "done")

C27_TerminatesWithin60Calls == []C27_AtMost60Calls /\ C27_LoopEnds

\* a loop has ended on a terminal reply to its 60th call
C27_Witness ==
    \E d \in DocIds :
        /\ poll[d].pc = "done"
        /\ poll[d].reason = "terminal"
        /\ poll[d].calls = max_attempts

\* C28: the step in which a registration succeeds starts the poll task of its
\* document and of no other; a step of the poll task of a document changes
\* no other document and no conversation or message, and creates or deletes
\* no document, whatever the other poll tasks are doing.
C28_OnePollTaskOwnDocument ==
    [][\A d \in DocIds :
        /\ (up[d] = "registering" /\ up'[d] = "success")
            => /\ poll[d].pc = "none"
               /\ poll'[d] = [IdlePoll EXCEPT !.pc = "loop"]
               /\ \A e \in DocIds \ {d} : poll'[e] = poll[e]
        /\ (poll[d].pc \in {"loop", "await"} /\ poll'[d] # poll[d])
            => /\ DOMAIN documents' = DOMAIN documents
               /\ \A e \in (DOMAIN documents) \ {d} : documents'[e] = documents[e]
               /\ \A e \in DocIds \ {d} : poll'[e] = poll[e]
               /\ conversations' = conversations
               /\ messages' = messages]_vars

\* two poll tasks have run interleaved: one has written its document, the
\* other is waiting for the gateway and its document is as it was
C28_Witness ==
    \E d1, d2 \in DOMAIN documents :
        /\ d1 # d2
        /\ poll[d1].pc = "done" /\ poll[d1].reason = "terminal"
        /\ writers[d1] = {"poll"}
        /\ poll[d2].pc = "await" /\ poll[d2].attempt > 0
        /\ documents[d2] = poll[d2].snap
        /\ Len(conversations) > 0

\* C29: the list extract_citations returns holds, in encounter order, the
\* first citation of each of the first five distinct (document id, page
\* number) pairs of the citations it collected: duplicates are dropped
\* before the list is cut to 5.
PairOf(citation) == <<citation.document_id, citation.page_number>>

\* the positions at which a pair is met for the first time
FirstOfPair(cs) == {i \in 1..Len(cs) : \A j \in 1..(i - 1) : PairOf(cs[j]) # PairOf(cs[i])}

C29_FirstFiveDistinctPairs ==
    (Extracted /\ ~ExtractionRaises(ragflow_response)) =>
        LET cs == Values(AfterReferences(ragflow_response))
            first == FirstOfPair(cs)
            Rank(i) == Cardinality({j \in first : j <= i})
        IN /\ Len(Output) = (IF Cardinality(first) < 5 THEN Cardinality(first) ELSE 5)
           /\ \A i \in first : Rank(i) <= 5 => Output[Rank(i)] = cs[i]

\* more than five pairs were collected and one of the first five was met
\* again among the first five entries; or two entries of one pair differ and
\* the first was kept
C29_Witness ==
    /\ Extracted
    /\ ~ExtractionRaises(ragflow_response)
    /\ LET cs == Values(AfterReferences(ragflow_response)) IN
        \/ /\ Cardinality(FirstOfPair(cs)) > 5
           /\ \E i \in 1..5 : i \notin FirstOfPair(cs)
           /\ Len(Output) = 5
        \/ /\ Len(cs) = 2
           /\ PairOf(cs[1]) = PairOf(cs[2])
           /\ cs[1] # cs[2]
           /\ Output = <<cs[1]>>

\* C30: every citation extract_citations returns has a page number of at
\* least 1, whatever the page value of the response is.
C30_PageNumberAtLeastOne ==
    Extracted => \A i \in 1..Len(Output) : Output[i].page_number >= 1

\* ------------------------------------------------------------------ C31
\* What the claim says of a sanitized question: no whitespace at either end,
\* no control character other than newline, carriage return and tab, at most
\* 10,000 characters.
Sanitized(question) ==
    /\ question # <<>> => ~IsSpace(question[1]) /\ ~IsSpace(question[Len(question)])
    /\ \A i \in 1..Len(question) : ~IsControl(question[i])
    /\ Len(question) <= max_length

\* C31: the question stored as the user message of a turn and the question
\* sent to the gateway in the query of that turn have no leading or trailing
\* whitespace, no control character other than newline, carriage return and
\* tab, and at most 10,000 characters.
C31_SanitizedQuestion ==
    /\ \A i \in 1..Len(messages) : messages[i].role = "user" => Sanitized(messages[i].content)
    /\ \A s \in ChatSlots : chat.turn[s].pc = "await" => Sanitized(chat.turn[s].question)

\* ------------------------------------------------------------------ C32
\* C32: when the gateway call of a deletion returns, whether the gateway
\* deleted the document (200), did not know it (404), refused (500) or the
\* request failed, the document's record is removed in that step and the
\* deletion is answered 200.  The deletion only reaches the gateway call for
\* a document that no conversation referenced when it was requested.
C32_DeletedWhateverTheGateway ==
    [][\A d \in DocIds :
        (del[d] = "await" /\ del'[d] = "idle")
            => /\ d \notin DOMAIN documents'
               /\ answered'.operation = "delete_document"
               /\ answered'.id = d
               /\ answered'.gateway \in DeleteOutcomes
               /\ answered'.code = 200]_vars

\* a deletion whose gateway call failed was answered 200, the record is gone
\* and the other document is still there
C32_Witness ==
    /\ answered.operation = "delete_document"
    /\ answered.gateway \in {"500", "exception"}
    /\ answered.code = 200
    /\ answered.id \notin DOMAIN documents
    /\ ConversationsUsing(answered.id) = {}
    /\ DOMAIN documents # {}

\* ------------------------------------------------------------------ C33
\* C33: in every reachable state every document whose status is processing
\* or completed has an external reference.
C33_ReferenceWhenProcessing ==
    \A d \in DOMAIN documents :
        documents[d].processing_status \in {"processing", "completed"}
            => documents[d].ragflow_document_id # NULL

C35_NotPendingAfterUpload ==
    \A d \in DOMAIN documents :
        up[d] # "registering" => StatusOf(documents, d) # "pending"

\* ------------------------------------------------------------------ C36
\* C36: a readiness probe that finds the database reachable and the
\* gateway's health endpoint answering 200 is answered 200 (ready), and a
\* detailed health check that finds the same reports ragflow as healthy.
C36_ReadyWhenGatewayAnswers ==
    /\ (/\ health.ready.probe.asked
        /\ health.ready.probe.database
        /\ health.ready.probe.gateway = "200")
            => health.ready.code = 200
    /\ (/\ health.detailed.probe.asked
        /\ health.detailed.probe.database
        /\ health.detailed.probe.gateway = "200")
            => health.detailed.checks.ragflow = "healthy"

\* ------------------------------------------------------------------ C37
\* the roles of the messages of a conversation, oldest first
Roles(conversation_id) ==
    [i \in 1..Cardinality(Of(conversation_id)) |-> InOrder(Of(conversation_id))[i].role]

\* C37: in every conversation the messages, in the order of their creation,
\* are a user message, an assistant message, a user message, and so on.
C37_MessagesAlternate ==
    \A c \in ConvIds :
        \A i \in 1..Len(Roles(c)) :
            Roles(c)[i] = (IF i % 2 = 1 THEN "user" ELSE "assistant")

\* ------------------------------------------------------------------ C38
\* C38: a step in which a request is rejected with a detail of the chat
\* validation creates no conversation and no message.
C38_RejectedQuickChatStoresNothing ==
    [][\A s \in ChatSlots :
        (chat'.turn[s] # chat.turn[s] /\ chat'.turn[s].detail \in ValidationDetails)
            => (conversations' = conversations /\ messages' = messages)]_vars

\* ------------------------------------------------------------------ C39
\* the external references of the documents of a conversation
ConversationReferences(conversation_id) ==
    LET ids == conversations[conversation_id].document_ids
    IN {documents[ids[k]].ragflow_document_id[1] :
            k \in {j \in 1..Len(ids) : Exists(ids[j]) /\ Truthy(documents[ids[j]].ragflow_document_id)}}

\* C39: the references a turn awaiting the gateway has posted with its query
\* all belong to documents of the conversation of the turn.
C39_QueriesItsOwnDocuments ==
    \A s \in ChatSlots :
        chat.turn[s].pc = "await"
            => chat.turn[s].payload.document_ids
                    \subseteq ConversationReferences(chat.turn[s].conversation_id)

\* ------------------------------------------------------------------ C40
\* C40: a document that has been deleted stays absent, and no poll iteration,
\* status check or batch reconciliation that resumes writes gateway data to it.
C40_DeletedStaysAbsent ==
    [][\A d \in 1..created :
        ~Exists(d) => /\ d \notin DOMAIN documents'
                      /\ applied'[d] = applied[d]
                      /\ writers'[d] = writers[d]]_vars

\* a batch reconciliation that had read a document returned, after the
\* deletion of the document, with a terminal status for it, and has ended
C40_Witness ==
    /\ answered.operation = "poll_processing_documents"
    /\ answered.id \in 1..created
    /\ ~Exists(answered.id)
    /\ answered.gateway \in {"completed", "failed"}
    /\ batch.pc = "idle"
====
